---------------------------- MODULE Spec2Model ----------------------------
(***************************************************************************)
(* A model of sixteen parts of the Surge download engine:                  *)
(*                                                                         *)
(*   - concurrent.TaskQueue (src/unnamed/part_004): the mutex/cond based   *)
(*     task queue, modelled statement by statement so that the lock-free   *)
(*     readers Len() and IdleWorkers() see every intermediate value of     *)
(*     the atomic counters;                                                *)
(*   - single.SingleDownloader.Download                                    *)
(*     (src/internal/engine/single/downloader.go): the single-connection   *)
(*     fetcher and its effects on the working file and the final file;     *)
(*   - the redirect policy installed by single.newSingleClient;            *)
(*   - single.getSharedSingleTransport, the cache of HTTP transports;      *)
(*   - the persistence store (SaveState, LoadState, DeleteState), whose    *)
(*     code is not among the sources: it is modelled from section 4.6 of   *)
(*     the specification and from the calls of its tests;                  *)
(*   - the destination path of a download across pause and resume          *)
(*     (src/internal/tui/resume_lifecycle_test.go);                        *)
(*   - the event codec (src/internal/engine/events/events.go):             *)
(*     EncodeSSEMessages and DecodeSSEMessage over encoding/json;          *)
(*   - eventsHandler (src/cmd/http_api.go), the event stream of the API;   *)
(*   - the method and id guards of the API routes (src/cmd/http_api.go)    *)
(*     and the update of a download's URL;                                 *)
(*   - the chunk plan of the concurrent fetcher (specification 4.2);       *)
(*   - pause and resume of the concurrent fetcher (specification 4.4);     *)
(*   - the health monitor of the concurrent fetcher (specification 4.2);   *)
(*   - the retries and the mirror failover of a worker (specification      *)
(*     4.4);                                                               *)
(*   - runHeadless (src/cmd/get.go) and its two channels;                  *)
(*   - RootModel.Update (src/unnamed/part_002): the downloads of the TUI,  *)
(*     the duplicate warning and the IDs;                                  *)
(*   - RootModel.Update (src/unnamed/part_002): the history view.          *)
(*                                                                         *)
(* Each part has its own next-state relation and specification; the        *)
(* variables of the other parts stay at their initial values.              *)
(***************************************************************************)
EXTENDS Integers, Sequences, FiniteSets, TLC

(***************************************************************************)
(* Bounds of the model.                                                    *)
(***************************************************************************)
\* goroutines that call the queue's operations
NumProcs == 3
\* tasks ever handed to Push / PushMultiple
MaxTasks == 3
\* longest slice handed to PushMultiple
MaxBatch == 2
\* largest fileSize handed to Download
MaxFileSize == 2
\* longest response body, in bytes
MaxBody == 10
\* types.WorkerBatchSize, scaled down to the bodies of the model
WorkerBatchSize == 9

\* redirect responses one server chain can give
MaxChain == 12

\* goroutines that call getSharedSingleTransport
NumCallers == 2
\* calls of getSharedSingleTransport in one run
MaxCalls == 3

\* largest TotalSize of a saved download
MaxSize == 2

\* CheckRedirect stops at len(via) >= 10 (downloader.go:65)
MaxVia == 10

\* progressReader.Read looks at the clock on every 8th read (downloader.go:281)
ReadCheckPeriod == 8

Procs == 1 .. NumProcs

\* sync.Mutex: 0 when unlocked, else the goroutine holding it
NoProc == 0

VARIABLES
    \* ---- TaskQueue fields (part_004:11-20)
    tasks,        \* q.tasks: the backing slice
    head,         \* q.head: number of consumed entries at the front of q.tasks
    mu,           \* q.mu: NoProc or the holder
    notify,       \* q.cond: goroutines parked in cond.Wait, not yet signalled
    done,         \* q.done
    idleWorkers,  \* q.idleWorkers (atomic)
    waiting,      \* q.waiting (atomic)
    size,         \* q.size (atomic)
    \* ---- the calling goroutines
    pc,           \* position of each goroutine inside the operation it runs
    arg,          \* the slice a Push / PushMultiple call was given
    popRet,       \* (task, ok) a Pop call is about to return
    drainRet,     \* the slice a DrainRemaining call is about to return
    slept,        \* whether the running Pop call has parked in cond.Wait
    sig,          \* cond.Signal calls issued by the running operation
    bcast,        \* whether the running operation called cond.Broadcast
    \* ---- history of the queue
    nextTask,     \* tasks created so far (tasks are numbered 1, 2, ...)
    appended,     \* the slices handed to append, concatenated in the order of the appends
    removed       \* every task taken out, in order, with how it left

qvars == <<tasks, head, mu, notify, done, idleWorkers, waiting, size,
           pc, arg, popRet, drainRet, slept, sig, bcast,
           nextTask, appended, removed>>

VARIABLES
    \* ---- Download's inputs (downloader.go:125)
    dpc,            \* position inside Download
    fileSize,       \* the fileSize argument; 0 when the size is unknown
    stateNil,       \* d.State == nil
    bodyLeft,       \* bytes of the response body not yet read
    cancelled,      \* ctx.Err() != nil
    \* ---- the file system
    workingExists,  \* <dest>.surge exists
    workingSize,    \* its length
    destKind,       \* the file at destPath: "none", "old" (there before the
                    \* call), "new" (the download) or "partial" (a copy that failed)
    destSize,       \* length of the file at destPath when it is "new"
    ops,            \* the calls made on the files, in order
    \* ---- Download's locals
    created,        \* os.Create succeeded (outFile is set)
    fdOpen,         \* outFile is open
    preallocated,   \* line 159
    deferReg,       \* the cleanup at 169-174 is registered
    success,        \* line 168
    written,        \* line 177
    chunk,          \* bytes read and not yet written to outFile
    copyErr,        \* err of io.CopyBuffer is not nil
    retErr,         \* the error Download returns, "nil" for nil
    \* ---- ProgressState and progressReader (downloader.go:240-249)
    downloaded,     \* State.Downloaded
    verified,       \* State.VerifiedProgress
    prWritten,      \* progressReader.written
    prPending,      \* progressReader.pending
    readChecks      \* progressReader.readChecks

dinputs == <<fileSize, stateNil, bodyLeft, cancelled>>
dfiles == <<workingExists, workingSize, destKind, destSize, ops>>
dlocals == <<created, fdOpen, preallocated, deferReg, success, written, chunk,
             copyErr, retErr>>
dprogress == <<downloaded, verified, prWritten, prPending, readChecks>>
dvars == <<dpc, dinputs, dfiles, dlocals, dprogress>>

VARIABLES
    \* ---- one request sent through the client of newSingleClient
    rpc,          \* "idle", "sent", "redirected" or "done"
    origHeader,   \* via[0].Header: the headers of the original request
    reqHeader,    \* the headers of the request in flight
    via,          \* len(via): the requests already answered by a redirect
    rStatus,      \* status of the final response, 0 while there is none
    rErr          \* the error of Client.Do, "nil" for nil

rvars == <<rpc, origHeader, reqHeader, via, rStatus, rErr>>

VARIABLES
    \* ---- getSharedSingleTransport and its callers
    singleTransportCache,  \* the sync.Map: key -> transport, NoTransport if absent
    tpc,                   \* per caller: where it is in getSharedSingleTransport
    key,                   \* per caller: the local key
    transport,             \* per caller: the local transport (line 88)
    made,                  \* http.Transport values allocated so far
    returned               \* the calls that have returned: caller, key, transport

tvars == <<singleTransportCache, tpc, key, transport, made, returned>>

VARIABLES
    \* ---- the persistence store and the calls made on it
    downloadsTable,  \* rows of downloads(url_hash PK, url, filename, total_size, downloaded)
    tasksTable,      \* rows of tasks(url_hash FK, chunk_index, offset, length)
    ret,             \* what the last call returned: the error and, for LoadState, the state
    lastCall,        \* the last call: operation, url and, for SaveState, the state saved
    prevCall,        \* the call before it
    firstCall        \* the call before that

svars == <<downloadsTable, tasksTable, ret, lastCall, prevCall, firstCall>>

VARIABLES
    \* ---- where a download is written, across a pause and a resume
    cwd,                 \* the working directory of the process
    DefaultDownloadDir,  \* settings.General.DefaultDownloadDir
    request,             \* the download asked for: output path, filename, and where it was asked
    Destination,         \* dm.Destination of the started download
    dest_path,           \* the dest_path column of the paused record
    entry,               \* the record LoadPausedDownloads returned
    outputPath,          \* the output directory built for the resumed download
    ppc                  \* how far the scenario has got

pvars == <<cwd, DefaultDownloadDir, request, Destination, dest_path, entry, outputPath, ppc>>

VARIABLES
    \* ---- the event codec: one message encoded to frames, the frames decoded
    msg,       \* the message handed to EncodeSSEMessages
    frames,    \* the frames held: those it returned, or one received from elsewhere
    encErr,    \* the error EncodeSSEMessages returned
    decoded,   \* what DecodeSSEMessage returned for each frame
    epc        \* "idle", "encoded" or "decoded"

evars == <<msg, frames, encErr, decoded, epc>>

VARIABLES
    \* ---- eventsHandler: one client of /events
    stream,        \* the messages in the channel service.StreamEvents returned
    streamClosed,  \* whether the service has closed the channel
    ctxDone,       \* whether r.Context() is done
    sent,          \* how many messages the service has sent
    received,      \* the messages the handler has taken from the channel, in order
    responseBody,  \* the frames written to the response, in order
    status,        \* the status of the response: 0 until the handler decides
    hpc            \* "start", "streaming" or "returned"

hvars == <<stream, streamClosed, ctxDone, sent, received, responseBody, status, hpc>>

VARIABLES
    \* ---- the HTTP control surface and the download it acts on
    downloadStatus,  \* queued, active, paused, completed, error or removed
    downloadURL,     \* the URL stored for the download
    httpRequest,     \* the last request served: route, method, id, body
    httpStatus,      \* the status code of its response
    serviceCall      \* the call it made on the service, if any

avars == <<downloadStatus, downloadURL, httpRequest, httpStatus, serviceCall>>

VARIABLES
    \* ---- the chunk planner
    total_size,  \* the size the plan was asked for, -1 before any call
    plan,        \* the plan of the first call
    replan       \* the plan of a second call with the same size

kvars == <<total_size, plan, replan>>

VARIABLES
    \* ---- one download in the concurrent fetcher, across a pause and a resume
    taskQueue,           \* the tasks not yet taken, in order
    inflight,            \* per worker: the task it holds
    fetchedOfTask,       \* per worker: bytes of its task received from the network
    chunk_progress,      \* per worker: bytes of its task written and counted
    workerState,         \* per worker: "idle", "busy" or "exited"
    pauseRequested,      \* progress.paused, and the shared context cancelled
    phase,               \* "active", "paused" or "completed"
    wasResumed,          \* whether the download has been paused and resumed
    storedTasks,         \* tasks[] of the persisted record
    bytesDownloaded,     \* progress.downloaded
    verified_progress,   \* progress.verified_progress
    verifiedBytes,       \* the positions of the file written and counted
    verified_at_pause,   \* verified_progress when the download became paused
    fetchedAfterResume   \* per position: times it was fetched after the resume

ovars == <<taskQueue, inflight, fetchedOfTask, chunk_progress, workerState, pauseRequested,
           phase, wasResumed, storedTasks, bytesDownloaded, verified_progress,
           verifiedBytes, verified_at_pause, fetchedAfterResume>>

VARIABLES
    \* ---- workers under the health monitor; time passes in seconds
    retryQueue,      \* the tasks waiting for a worker: range and attempt
    held,            \* per worker: the task it holds
    reading,         \* per worker: "idle", "reading" the socket or "flushing" to disk
    connAlive,       \* per worker: whether its connection still delivers bytes
    sinceByte,       \* per worker: seconds since its last byte arrived
    flushTicks,      \* per worker: of those, the seconds it spent flushing
    waitTicks,       \* per worker: of those, the seconds it spent waiting on the socket
    stalls,          \* how many connections have stopped delivering
    finishedRanges   \* the ranges written in full

mvars == <<retryQueue, held, reading, connAlive, sinceByte, flushTicks, waitTicks, stalls,
           finishedRanges>>

VARIABLES
    \* ---- the worker loop's handling of failures (specification 4.4, step 5)
    workQueue,      \* the task queue: tasks {chunk, attempt, source}
    current,        \* the task a worker has popped, or NoAttempt
    lastFailure,    \* how the last fetch ended: "none", "transient", "fatal"
    completed,      \* chunks fetched
    surfaced,       \* whether a failure was surfaced (status error)
    attemptsMade    \* fetches started, per chunk and source

wvars == <<workQueue, current, lastFailure, completed, surfaced, attemptsMade>>

VARIABLES
    \* ---- runHeadless (src/cmd/get.go:25-69)
    eventCh,        \* the messages buffered in eventCh
    eventChClosed,  \* close(eventCh) was called
    errCh,          \* the errors buffered in errCh
    gpc,            \* the download goroutine: "downloading", "sendErr", "closeCh", "exited"
    lpc,            \* runHeadless: "ranging" (the event loop), "recvErr", "returned"
    downloadErr,    \* what downloader.Download returned
    headlessRet,    \* what runHeadless returned
    seen,           \* the messages the event loop has received, in order
    emitted         \* the messages Download has sent

gvars == <<eventCh, eventChClosed, errCh, gpc, lpc, downloadErr, headlessRet, seen, emitted>>

VARIABLES
    \* ---- RootModel (src/unnamed/part_002), the downloads of the TUI
    uiState,          \* m.state: "Dashboard", "Input" or "DuplicateWarning"
    downloads,        \* m.downloads: {ID, URL, Filename}
    NextDownloadID,   \* m.NextDownloadID
    pendingURL,       \* m.pendingURL
    pendingPath,      \* m.pendingPath
    pendingFilename,  \* m.pendingFilename
    duplicateInfo,    \* m.duplicateInfo
    poolAdds,         \* the calls of m.Pool.Add made so far
    lastCfg,          \* the DownloadConfig of the last of them
    assignedIDs       \* every ID given to a download so far

uvars == <<uiState, downloads, NextDownloadID, pendingURL, pendingPath, pendingFilename,
           duplicateInfo, poolAdds, lastCfg, assignedIDs>>

VARIABLES
    \* ---- RootModel (src/unnamed/part_002), the history view
    viewState,        \* m.state: "Dashboard" or "History"
    historyEntries,   \* m.historyEntries: the URL hashes of the entries loaded
    historyCursor,    \* m.historyCursor
    masterList,       \* the completed entries of the store, by URL hash
    removedLast       \* the hashes the last delete handed to RemoveFromMasterList

yvars == <<viewState, historyEntries, historyCursor, masterList, removedLast>>

vars == <<qvars, dvars, rvars, tvars, svars, pvars, evars, hvars, avars, kvars, ovars, mvars, wvars, gvars, uvars, yvars>>

\* what the steps of one part leave alone
notQueue == <<dvars, rvars, tvars, svars, pvars, evars, hvars, avars, kvars, ovars, mvars, wvars, gvars, uvars, yvars>>
notSingle == <<qvars, rvars, tvars, svars, pvars, evars, hvars, avars, kvars, ovars, mvars, wvars, gvars, uvars, yvars>>
notRedirect == <<qvars, dvars, tvars, svars, pvars, evars, hvars, avars, kvars, ovars, mvars, wvars, gvars, uvars, yvars>>
notTransport == <<qvars, dvars, rvars, svars, pvars, evars, hvars, avars, kvars, ovars, mvars, wvars, gvars, uvars, yvars>>
notStore == <<qvars, dvars, rvars, tvars, pvars, evars, hvars, avars, kvars, ovars, mvars, wvars, gvars, uvars, yvars>>
notPaths == <<qvars, dvars, rvars, tvars, svars, evars, hvars, avars, kvars, ovars, mvars, wvars, gvars, uvars, yvars>>
notCodec == <<qvars, dvars, rvars, tvars, svars, pvars, hvars, avars, kvars, ovars, mvars, wvars, gvars, uvars, yvars>>
notHandler == <<qvars, dvars, rvars, tvars, svars, pvars, evars, avars, kvars, ovars, mvars, wvars, gvars, uvars, yvars>>
notAPI == <<qvars, dvars, rvars, tvars, svars, pvars, evars, hvars, kvars, ovars, mvars, wvars, gvars, uvars, yvars>>
notPlanner == <<qvars, dvars, rvars, tvars, svars, pvars, evars, hvars, avars, ovars, mvars, wvars, gvars, uvars, yvars>>
notFetcher == <<qvars, dvars, rvars, tvars, svars, pvars, evars, hvars, avars, kvars, mvars, wvars, gvars, uvars, yvars>>
notMonitor == <<qvars, dvars, rvars, tvars, svars, pvars, evars, hvars, avars, kvars, ovars, wvars, gvars, uvars, yvars>>
notRetry == <<qvars, dvars, rvars, tvars, svars, pvars, evars, hvars, avars, kvars, ovars, mvars, gvars, uvars, yvars>>
notHeadless == <<qvars, dvars, rvars, tvars, svars, pvars, evars, hvars, avars, kvars, ovars, mvars, wvars, uvars, yvars>>
notTUI == <<qvars, dvars, rvars, tvars, svars, pvars, evars, hvars, avars, kvars, ovars, mvars, wvars, gvars, yvars>>
notHistory == <<qvars, dvars, rvars, tvars, svars, pvars, evars, hvars, avars, kvars, ovars, mvars, wvars, gvars, uvars>>

(***************************************************************************)
(* Helpers on sequences.                                                   *)
(***************************************************************************)
Min(a, b) == IF a < b THEN a ELSE b

\* s[from+1 ..], Go's s[from:]
SliceFrom(s, from) == SubSeq(s, from + 1, Len(s))

\* the zero types.Task
ZeroTask == 0

\* Pop's results
ClosedResult == [task |-> ZeroTask, ok |-> FALSE]
TaskResult(t) == [task |-> t, ok |-> TRUE]

\* the tasks that are pending: q.tasks[q.head:]
Pending == SliceFrom(tasks, head)

\* Len() (part_004:83-85)
QLen == size

\* IdleWorkers() (part_004:87-89)
IdleWorkers == idleWorkers

(***************************************************************************)
(* sync.Mutex and sync.Cond.                                               *)
(***************************************************************************)
Lock(p, at, to) ==
    /\ pc[p] = at
    /\ mu = NoProc
    /\ mu' = p
    /\ pc' = [pc EXCEPT ![p] = to]

\* the sets of parked goroutines n calls of cond.Signal can leave behind:
\* each call wakes one parked goroutine if there is one
AfterSignals(parked, n) ==
    {parked \ W : W \in {V \in SUBSET parked : Cardinality(V) = Min(n, Cardinality(parked))}}

\* pc of the goroutines taken out of cond.Wait: they still have to re-lock q.mu
Wake(woken) == [p \in Procs |-> IF p \in woken THEN "PopRelock" ELSE pc[p]]

(***************************************************************************)
(* Init: NewTaskQueue (part_004:22-26); every goroutine is outside the     *)
(* queue.                                                                  *)
(***************************************************************************)
QInit ==
    /\ tasks = <<>>
    /\ head = 0
    /\ mu = NoProc
    /\ notify = {}
    /\ done = FALSE
    /\ idleWorkers = 0
    /\ waiting = 0
    /\ size = 0
    /\ pc = [p \in Procs |-> "idle"]
    /\ arg = [p \in Procs |-> <<>>]
    /\ popRet = [p \in Procs |-> ClosedResult]
    /\ drainRet = [p \in Procs |-> <<>>]
    /\ slept = [p \in Procs |-> FALSE]
    /\ sig = [p \in Procs |-> 0]
    /\ bcast = [p \in Procs |-> FALSE]
    /\ nextTask = 0
    /\ appended = <<>>
    /\ removed = <<>>

(***************************************************************************)
(* Frames: what a step of the queue leaves alone.                          *)
(***************************************************************************)
qfields == <<tasks, head, done>>
qatomics == <<idleWorkers, waiting, size>>
qcalls == <<arg, popRet, drainRet, slept, sig, bcast>>
qhistory == <<nextTask, appended, removed>>

\* a goroutine moves on inside its operation
Goto(p, at, to) == pc[p] = at /\ pc' = [pc EXCEPT ![p] = to]

\* q.mu.Unlock() on the way out of an operation; the call's locals die
Unlock(p, at) ==
    /\ pc[p] = at
    /\ mu = p
    /\ mu' = NoProc
    /\ pc' = [pc EXCEPT ![p] = "idle"]
    /\ arg' = [arg EXCEPT ![p] = <<>>]
    /\ popRet' = [popRet EXCEPT ![p] = ClosedResult]
    /\ drainRet' = [drainRet EXCEPT ![p] = <<>>]
    /\ slept' = [slept EXCEPT ![p] = FALSE]
    /\ sig' = [sig EXCEPT ![p] = 0]
    /\ bcast' = [bcast EXCEPT ![p] = FALSE]
    /\ UNCHANGED <<qfields, qatomics, qhistory, notify>>
    /\ UNCHANGED notQueue

(***************************************************************************)
(* signalWaitingWorkersLocked (part_004:108-125)                           *)
(***************************************************************************)
\* the number of cond.Signal calls the loop at 122-124 makes
SignalCountUnbounded(maxSignals) == IF maxSignals <= 0 THEN 0 ELSE maxSignals

\* one cond.Signal per call, however many tasks were pushed
SignalCountAtMostOne(maxSignals) ==
    IF maxSignals <= 0 THEN 0
    ELSE IF waiting <= 0 THEN 0
    ELSE 1

SignalCount(maxSignals) ==
    IF maxSignals <= 0 THEN 0
    ELSE IF waiting <= 0 THEN 0
    ELSE IF maxSignals > waiting THEN waiting
    ELSE maxSignals

signalWaitingWorkersLocked(p, maxSignals, at, to) ==
    /\ pc[p] = at
    /\ \E rest \in AfterSignals(notify, SignalCount(maxSignals)) :
          /\ notify' = rest
          /\ pc' = [Wake(notify \ rest) EXCEPT ![p] = to]
    /\ sig' = [sig EXCEPT ![p] = SignalCount(maxSignals)]
    /\ UNCHANGED <<qfields, qatomics, qhistory, mu,
                   arg, popRet, drainRet, slept, bcast>>
    /\ UNCHANGED notQueue

(***************************************************************************)
(* Push (part_004:28-34)                                                   *)
(***************************************************************************)
\* q.tasks = append(q.tasks, ts...)
AppendReversed(q, ts) == q \o [i \in 1 .. Len(ts) |-> ts[Len(ts) + 1 - i]]

AppendTasks(q, ts) == q \o ts

\* 29-30: the call is given a new task, locks q.mu and appends the task
PushAppend(p) ==
    /\ Lock(p, "idle", "PushSize")
    /\ nextTask < MaxTasks
    /\ nextTask' = nextTask + 1
    /\ arg' = [arg EXCEPT ![p] = <<nextTask + 1>>]
    /\ tasks' = AppendTasks(tasks, arg'[p])
    /\ appended' = appended \o arg'[p]
    /\ UNCHANGED <<head, done, qatomics, notify, removed,
                   popRet, drainRet, slept, sig, bcast>>
    /\ UNCHANGED notQueue

\* 31: q.size.Add(1)
PushSize(p) ==
    /\ Goto(p, "PushSize", "PushSignal")
    /\ size' = size + 1
    /\ UNCHANGED <<qfields, idleWorkers, waiting, qcalls, qhistory, mu, notify>>
    /\ UNCHANGED notQueue

\* 32
PushSignal(p) == signalWaitingWorkersLocked(p, 1, "PushSignal", "PushUnlock")

\* 33
PushUnlock(p) == Unlock(p, "PushUnlock")

(***************************************************************************)
(* PushMultiple (part_004:36-46)                                           *)
(***************************************************************************)
\* 37-39: an empty slice returns at once
PushMultipleEmpty(p) ==
    /\ pc[p] = "idle"
    /\ UNCHANGED vars

\* 41-42: the call is given k new tasks, locks q.mu and appends them
PushMultipleAppend(p) ==
    /\ Lock(p, "idle", "PushMultipleSize")
    /\ \E k \in 1 .. MaxBatch :
          /\ nextTask + k <= MaxTasks
          /\ nextTask' = nextTask + k
          /\ arg' = [arg EXCEPT ![p] = [i \in 1 .. k |-> nextTask + i]]
    /\ tasks' = AppendTasks(tasks, arg'[p])
    /\ appended' = appended \o arg'[p]
    /\ UNCHANGED <<head, done, qatomics, notify, removed,
                   popRet, drainRet, slept, sig, bcast>>
    /\ UNCHANGED notQueue

\* 43: q.size.Add(int64(len(tasks)))
PushMultipleSize(p) ==
    /\ Goto(p, "PushMultipleSize", "PushMultipleSignal")
    /\ size' = size + Len(arg[p])
    /\ UNCHANGED <<qfields, idleWorkers, waiting, qcalls, qhistory, mu, notify>>
    /\ UNCHANGED notQueue

\* 44
PushMultipleSignal(p) ==
    signalWaitingWorkersLocked(p, Len(arg[p]), "PushMultipleSignal", "PushMultipleUnlock")

\* 45
PushMultipleUnlock(p) == Unlock(p, "PushMultipleUnlock")

(***************************************************************************)
(* Pop (part_004:48-74)                                                    *)
(***************************************************************************)
\* the loop condition at 52
MustWaitIgnoringDone == Len(tasks) = head

MustWait == Len(tasks) = head /\ ~done

\* where the loop at 52 sends the goroutine that holds q.mu
LoopTarget == IF MustWait THEN "PopIdleInc" ELSE "PopTake"

\* 49, 52: lock q.mu and test the loop condition
PopLock(p) ==
    /\ Lock(p, "idle", LoopTarget)
    /\ UNCHANGED <<qfields, qatomics, qcalls, qhistory, notify>>
    /\ UNCHANGED notQueue

\* 53: q.idleWorkers.Add(1)
PopIdleInc(p) ==
    /\ Goto(p, "PopIdleInc", "PopWaitingInc")
    /\ idleWorkers' = idleWorkers + 1
    /\ UNCHANGED <<qfields, waiting, size, qcalls, qhistory, mu, notify>>
    /\ UNCHANGED notQueue

\* 54-55: q.waiting.Add(1); q.cond.Wait() joins the notify list and unlocks q.mu
PopWaitingInc(p) ==
    /\ Goto(p, "PopWaitingInc", "PopParked")
    /\ waiting' = waiting + 1
    /\ mu = p
    /\ mu' = NoProc
    /\ notify' = notify \cup {p}
    /\ slept' = [slept EXCEPT ![p] = TRUE]
    /\ UNCHANGED <<qfields, idleWorkers, size, qhistory, arg, popRet, drainRet, sig, bcast>>
    /\ UNCHANGED notQueue

\* 55-56: a signalled goroutine re-locks q.mu, cond.Wait returns; q.waiting.Add(-1)
PopRelock(p) ==
    /\ Lock(p, "PopRelock", "PopIdleDec")
    /\ waiting' = waiting - 1
    /\ UNCHANGED <<qfields, idleWorkers, size, qcalls, qhistory, notify>>
    /\ UNCHANGED notQueue

\* 57 left out: a woken worker still counts as idle
PopIdleDecForgotten(p) ==
    /\ Goto(p, "PopIdleDec", LoopTarget)
    /\ UNCHANGED <<qfields, qatomics, qcalls, qhistory, mu, notify>>
    /\ UNCHANGED notQueue

\* 57, 52: q.idleWorkers.Add(-1) and the loop condition again
PopIdleDec(p) ==
    /\ Goto(p, "PopIdleDec", LoopTarget)
    /\ idleWorkers' = idleWorkers - 1
    /\ UNCHANGED <<qfields, waiting, size, qcalls, qhistory, mu, notify>>
    /\ UNCHANGED notQueue

\* 64: the index in q.tasks (counted from 1) of the task Pop returns
TakeIndexLast == Len(tasks)

TakeIndex == head + 1

\* 60 testing q.done: a closed queue hands out no more tasks
PopTakeClosedFirst(p) ==
    /\ pc[p] = "PopTake"
    /\ IF Len(tasks) = head \/ done
          THEN /\ popRet' = [popRet EXCEPT ![p] = ClosedResult]
               /\ pc' = [pc EXCEPT ![p] = "PopUnlock"]
               /\ UNCHANGED <<head, removed>>
          ELSE /\ popRet' = [popRet EXCEPT ![p] = TaskResult(tasks[TakeIndex])]
               /\ head' = head + 1
               /\ removed' = Append(removed, [task |-> tasks[TakeIndex], by |-> "Pop"])
               /\ pc' = [pc EXCEPT ![p] = "PopSize"]
    /\ UNCHANGED <<tasks, done, qatomics, mu, notify, nextTask, appended,
                   arg, drainRet, slept, sig, bcast>>
    /\ UNCHANGED notQueue

\* 60-65: return closed, or take q.tasks[q.head] and advance q.head
PopTake(p) ==
    /\ pc[p] = "PopTake"
    /\ IF Len(tasks) = head
          THEN /\ popRet' = [popRet EXCEPT ![p] = ClosedResult]
               /\ pc' = [pc EXCEPT ![p] = "PopUnlock"]
               /\ UNCHANGED <<head, removed>>
          ELSE /\ popRet' = [popRet EXCEPT ![p] = TaskResult(tasks[TakeIndex])]
               /\ head' = head + 1
               /\ removed' = Append(removed, [task |-> tasks[TakeIndex], by |-> "Pop"])
               /\ pc' = [pc EXCEPT ![p] = "PopSize"]
    /\ UNCHANGED <<tasks, done, qatomics, mu, notify, nextTask, appended,
                   arg, drainRet, slept, sig, bcast>>
    /\ UNCHANGED notQueue

\* 71 left out: the prefix is dropped and q.head keeps counting it
PopSizeHeadKept(p) ==
    /\ Goto(p, "PopSize", "PopUnlock")
    /\ size' = size - 1
    /\ IF head > Len(tasks) \div 2
          THEN tasks' = SliceFrom(tasks, head) /\ UNCHANGED head
          ELSE UNCHANGED <<tasks, head>>
    /\ UNCHANGED <<done, idleWorkers, waiting, qcalls, qhistory, mu, notify>>
    /\ UNCHANGED notQueue

\* 66-72: q.size.Add(-1); drop the consumed prefix once it is more than half
\* of the slice
PopSize(p) ==
    /\ Goto(p, "PopSize", "PopUnlock")
    /\ size' = size - 1
    /\ IF head > Len(tasks) \div 2
          THEN tasks' = SliceFrom(tasks, head) /\ head' = 0
          ELSE UNCHANGED <<tasks, head>>
    /\ UNCHANGED <<done, idleWorkers, waiting, qcalls, qhistory, mu, notify>>
    /\ UNCHANGED notQueue

\* 50: the deferred q.mu.Unlock()
PopUnlock(p) == Unlock(p, "PopUnlock")

(***************************************************************************)
(* Close (part_004:76-81)                                                  *)
(***************************************************************************)
\* 77-78: lock q.mu; q.done = true
CloseDone(p) ==
    /\ Lock(p, "idle", "CloseBroadcast")
    /\ done' = TRUE
    /\ UNCHANGED <<tasks, head, qatomics, qcalls, qhistory, notify>>
    /\ UNCHANGED notQueue

\* 79: q.cond.Broadcast() wakes every parked goroutine
BroadcastNone(parked) == parked

Broadcast(parked) == {}

CloseBroadcast(p) ==
    /\ pc[p] = "CloseBroadcast"
    /\ notify' = Broadcast(notify)
    /\ pc' = [Wake(notify \ notify') EXCEPT ![p] = "CloseUnlock"]
    /\ bcast' = [bcast EXCEPT ![p] = TRUE]
    /\ UNCHANGED <<qfields, qatomics, qhistory, mu, arg, popRet, drainRet, slept, sig>>
    /\ UNCHANGED notQueue

\* 80
CloseUnlock(p) == Unlock(p, "CloseUnlock")

(***************************************************************************)
(* DrainRemaining (part_004:91-106)                                        *)
(***************************************************************************)
\* the drained tasks, in the order they leave
Drained(ts) == [i \in 1 .. Len(ts) |-> [task |-> ts[i], by |-> "DrainRemaining"]]

\* 100-101: the slice DrainRemaining copies out
RemainingWithConsumed == tasks

Remaining == SliceFrom(tasks, head)

\* 102-103 left out: the drained tasks stay in q.tasks
DrainRemainingKeepsTasks(p) ==
    /\ IF head >= Len(tasks)
          THEN /\ Lock(p, "idle", "DrainRemainingUnlock")
               /\ drainRet' = [drainRet EXCEPT ![p] = <<>>]
               /\ UNCHANGED removed
          ELSE /\ Lock(p, "idle", "DrainRemainingStore")
               /\ drainRet' = [drainRet EXCEPT ![p] = Remaining]
               /\ removed' = removed \o Drained(Remaining)
    /\ UNCHANGED <<tasks, head, done, qatomics, notify, nextTask, appended,
                   arg, popRet, slept, sig, bcast>>
    /\ UNCHANGED notQueue

\* 93-103: lock q.mu; return nil, or copy q.tasks[q.head:] and reset the slice
DrainRemainingCopy(p) ==
    /\ IF head >= Len(tasks)
          THEN /\ Lock(p, "idle", "DrainRemainingUnlock")
               /\ drainRet' = [drainRet EXCEPT ![p] = <<>>]
               /\ UNCHANGED <<tasks, head, removed>>
          ELSE /\ Lock(p, "idle", "DrainRemainingStore")
               /\ drainRet' = [drainRet EXCEPT ![p] = Remaining]
               /\ tasks' = <<>>
               /\ head' = 0
               /\ removed' = removed \o Drained(Remaining)
    /\ UNCHANGED <<done, qatomics, notify, nextTask, appended,
                   arg, popRet, slept, sig, bcast>>
    /\ UNCHANGED notQueue

\* 104 left out: the size counter keeps counting the drained tasks
DrainRemainingStoreForgotten(p) ==
    /\ Goto(p, "DrainRemainingStore", "DrainRemainingUnlock")
    /\ UNCHANGED <<qfields, qatomics, qcalls, qhistory, mu, notify>>
    /\ UNCHANGED notQueue

\* 104: q.size.Store(0)
DrainRemainingStore(p) ==
    /\ Goto(p, "DrainRemainingStore", "DrainRemainingUnlock")
    /\ size' = 0
    /\ UNCHANGED <<qfields, idleWorkers, waiting, qcalls, qhistory, mu, notify>>
    /\ UNCHANGED notQueue

\* 94: the deferred q.mu.Unlock()
DrainRemainingUnlock(p) == Unlock(p, "DrainRemainingUnlock")

(***************************************************************************)
(* The queue under any interleaving of its callers.                        *)
(***************************************************************************)
\* a goroutine calls an operation and gets the lock
QCall(p) ==
    \/ PushAppend(p)
    \/ PushMultipleEmpty(p)
    \/ PushMultipleAppend(p)
    \/ PopLock(p)
    \/ CloseDone(p)
    \/ DrainRemainingCopy(p)

\* a goroutine inside an operation takes its next step
QStep(p) ==
    \/ PushSize(p) \/ PushSignal(p) \/ PushUnlock(p)
    \/ PushMultipleSize(p) \/ PushMultipleSignal(p) \/ PushMultipleUnlock(p)
    \/ PopIdleInc(p) \/ PopWaitingInc(p) \/ PopRelock(p) \/ PopIdleDec(p)
    \/ PopTake(p) \/ PopSize(p) \/ PopUnlock(p)
    \/ CloseBroadcast(p) \/ CloseUnlock(p)
    \/ DrainRemainingStore(p) \/ DrainRemainingUnlock(p)

NextQueue == \E p \in Procs : QCall(p) \/ QStep(p)

(***************************************************************************)
(* SingleDownloader.Download (downloader.go:125-238)                       *)
(*                                                                         *)
(* Every call on the network or the file system may fail; which ones do is *)
(* the environment's choice.  os.Remove of a file this call has created is *)
(* taken to succeed: the code discards its error.                          *)
(***************************************************************************)
DInit ==
    /\ dpc = "idle"
    /\ fileSize = 0
    /\ stateNil = TRUE
    /\ bodyLeft = 0
    /\ cancelled = FALSE
    /\ workingExists = FALSE
    /\ workingSize = 0
    /\ destKind = "none"
    /\ destSize = 0
    /\ ops = <<>>
    /\ created = FALSE
    /\ fdOpen = FALSE
    /\ preallocated = FALSE
    /\ deferReg = FALSE
    /\ success = FALSE
    /\ written = 0
    /\ chunk = 0
    /\ copyErr = FALSE
    /\ retErr = "nil"
    /\ downloaded = 0
    /\ verified = 0
    /\ prWritten = 0
    /\ prPending = 0
    /\ readChecks = 0

Max(a, b) == IF a > b THEN a ELSE b

DGoto(at, to) == dpc = at /\ dpc' = to

\* a return statement: the deferred calls are still to run
DReturn(at, e) == dpc = at /\ dpc' = "Deferred" /\ retErr' = e

Called(op) == ops' = Append(ops, op)

\* the caller picks the arguments; a file may already be at destPath, and a
\* stale working file may be left from an earlier run
DownloadCall ==
    /\ DGoto("idle", "NewRequest")
    /\ \E fs \in 0 .. MaxFileSize, sn \in BOOLEAN, stale \in BOOLEAN, old \in BOOLEAN :
          /\ fileSize' = fs
          /\ stateNil' = sn
          /\ workingExists' = stale
          /\ workingSize' = IF stale THEN 1 ELSE 0
          /\ destKind' = IF old THEN "old" ELSE "none"
    /\ UNCHANGED <<bodyLeft, cancelled, destSize, ops, dlocals, dprogress>>
    /\ UNCHANGED notSingle

\* the per-download context is cancelled while Download runs
CancelContext ==
    /\ dpc \notin {"idle", "Returned"}
    /\ ~cancelled
    /\ cancelled' = TRUE
    /\ UNCHANGED <<dpc, fileSize, stateNil, bodyLeft, dfiles, dlocals, dprogress>>
    /\ UNCHANGED notSingle

\* 128-131
NewRequest ==
    /\ \/ DGoto("NewRequest", "Do") /\ UNCHANGED retErr
       \/ DReturn("NewRequest", "request error")
    /\ UNCHANGED <<dinputs, dfiles, created, fdOpen, preallocated, deferReg,
                   success, written, chunk, copyErr, dprogress>>
    /\ UNCHANGED notSingle

\* the working file created before the status is looked at
ClientDoAfterCreate ==
    /\ \/ /\ DGoto("Do", "Create")
          /\ \E n \in 0 .. MaxBody : bodyLeft' = n
          /\ UNCHANGED <<retErr, dfiles>>
       \/ DReturn("Do", "request error") /\ UNCHANGED <<bodyLeft, dfiles>>
       \/ /\ DReturn("Do", "unexpected status code")
          /\ workingExists' = TRUE
          /\ workingSize' = 0
          /\ Called("Create")
          /\ UNCHANGED <<bodyLeft, destKind, destSize>>
    /\ UNCHANGED <<fileSize, stateNil, cancelled, created, fdOpen,
                   preallocated, deferReg, success, written, chunk, copyErr, dprogress>>
    /\ UNCHANGED notSingle

\* 138-150: the response, its status and the length of its body
ClientDo ==
    /\ \/ /\ DGoto("Do", "Create")
          /\ \E n \in 0 .. MaxBody : bodyLeft' = n
          /\ UNCHANGED retErr
       \/ DReturn("Do", "request error") /\ UNCHANGED bodyLeft
       \/ DReturn("Do", "unexpected status code") /\ UNCHANGED bodyLeft
    /\ UNCHANGED <<fileSize, stateNil, cancelled, dfiles, created, fdOpen,
                   preallocated, deferReg, success, written, chunk, copyErr, dprogress>>
    /\ UNCHANGED notSingle

\* 153-157: os.Create makes the working file, or empties the one it finds
Create ==
    /\ \/ /\ DGoto("Create", "Preallocate")
          /\ workingExists' = TRUE
          /\ workingSize' = 0
          /\ created' = TRUE
          /\ fdOpen' = TRUE
          /\ Called("Create")
          /\ UNCHANGED retErr
       \/ /\ DReturn("Create", "create error")
          /\ Called("Create")
          /\ UNCHANGED <<workingExists, workingSize, created, fdOpen>>
    /\ UNCHANGED <<dinputs, destKind, destSize, preallocated, deferReg, success,
                   written, chunk, copyErr, dprogress>>
    /\ UNCHANGED notSingle

\* 159-174: preallocate when the size is known, then register the cleanup;
\* a failed preallocation returns at 162, before the cleanup is registered
Preallocate ==
    /\ \/ /\ DGoto("Preallocate", "Copy")
          /\ IF fileSize > 0
                THEN /\ workingSize' = fileSize
                     /\ preallocated' = TRUE
                     /\ Called("Preallocate")
                ELSE UNCHANGED <<workingSize, preallocated, ops>>
          /\ deferReg' = TRUE
          /\ UNCHANGED retErr
       \/ /\ fileSize > 0
          /\ DReturn("Preallocate", "failed to preallocate file")
          /\ Called("Preallocate")
          /\ UNCHANGED <<workingSize, preallocated, deferReg>>
    /\ UNCHANGED <<dinputs, workingExists, destKind, destSize, created, fdOpen,
                   success, written, chunk, copyErr, dprogress>>
    /\ UNCHANGED notSingle

(***************************************************************************)
(* progressReader (downloader.go:240-314) and the copy loop of             *)
(* io.CopyBuffer (downloader.go:183-189): read a chunk, write it.          *)
(***************************************************************************)
\* 305: flushWithTime has something to publish
FlushNeeded == ~(prPending = 0 /\ prWritten = 0)

\* 188: where Download goes once io.CopyBuffer has returned
AfterCopy == IF stateNil \/ ~FlushNeeded THEN "CheckErr" ELSE "FinalFlushDownloaded"

\* 264-291: Read counts n bytes and flushes on a full batch, or on an elapsed
\* interval, which it looks for on every ReadCheckPeriod-th read
ProgressRead(n) ==
    /\ prWritten' = prWritten + n
    /\ prPending' = prPending + n
    /\ IF prPending + n >= WorkerBatchSize
          THEN dpc' = "ReadFlushDownloaded" /\ UNCHANGED readChecks
          ELSE IF readChecks + 1 >= ReadCheckPeriod
                  THEN /\ readChecks' = 0
                       /\ \/ dpc' = "ReadFlushDownloaded"
                          \/ dpc' = "Write"
                  ELSE /\ readChecks' = readChecks + 1
                       /\ dpc' = "Write"

\* src.Read: some bytes, the end of the body, or an error
CopyRead ==
    /\ dpc = "Copy"
    /\ \/ \E n \in 1 .. bodyLeft :
             /\ bodyLeft' = bodyLeft - n
             /\ chunk' = n
             /\ IF stateNil
                   THEN dpc' = "Write" /\ UNCHANGED <<prWritten, prPending, readChecks>>
                   ELSE ProgressRead(n)
             /\ UNCHANGED copyErr
       \/ /\ bodyLeft = 0
          /\ dpc' = AfterCopy
          /\ UNCHANGED <<bodyLeft, chunk, copyErr, prWritten, prPending, readChecks>>
       \/ /\ copyErr' = TRUE
          /\ dpc' = AfterCopy
          /\ UNCHANGED <<bodyLeft, chunk, prWritten, prPending, readChecks>>
    /\ UNCHANGED <<fileSize, stateNil, cancelled, dfiles, created, fdOpen,
                   preallocated, deferReg, success, written, retErr,
                   downloaded, verified>>
    /\ UNCHANGED notSingle

\* 309 with w.pending for w.written: the size of the batch is published
FlushDownloadedPending ==
    /\ \/ DGoto("ReadFlushDownloaded", "ReadFlushVerified")
       \/ DGoto("FinalFlushDownloaded", "FinalFlushVerified")
    /\ downloaded' = prPending
    /\ UNCHANGED <<dinputs, dfiles, dlocals, verified, prWritten, prPending, readChecks>>
    /\ UNCHANGED notSingle

\* 309 and 310 in the other order: VerifiedProgress is stored first
FlushVerifiedFirst ==
    /\ \/ DGoto("ReadFlushDownloaded", "ReadFlushVerified")
       \/ DGoto("FinalFlushDownloaded", "FinalFlushVerified")
    /\ verified' = prWritten
    /\ UNCHANGED <<dinputs, dfiles, dlocals, downloaded, prWritten, prPending, readChecks>>
    /\ UNCHANGED notSingle

\* 309: w.state.Downloaded.Store(w.written)
FlushDownloaded ==
    /\ \/ DGoto("ReadFlushDownloaded", "ReadFlushVerified")
       \/ DGoto("FinalFlushDownloaded", "FinalFlushVerified")
    /\ downloaded' = prWritten
    /\ UNCHANGED <<dinputs, dfiles, dlocals, verified, prWritten, prPending, readChecks>>
    /\ UNCHANGED notSingle

\* 310-313: w.state.VerifiedProgress.Store(w.written); the batch starts again
FlushVerified ==
    /\ \/ DGoto("ReadFlushVerified", "Write")
       \/ DGoto("FinalFlushVerified", "CheckErr")
    /\ verified' = prWritten
    /\ prPending' = 0
    /\ readChecks' = 0
    /\ UNCHANGED <<dinputs, dfiles, dlocals, downloaded, prWritten>>
    /\ UNCHANGED notSingle

\* dst.Write: the chunk, or an error after part of it
CopyWrite ==
    /\ dpc = "Write"
    /\ \/ /\ written' = written + chunk
          /\ dpc' = "Copy"
          /\ UNCHANGED copyErr
       \/ /\ \E k \in 0 .. chunk - 1 : written' = written + k
          /\ copyErr' = TRUE
          /\ dpc' = AfterCopy
    /\ chunk' = 0
    /\ workingSize' = Max(workingSize, written')
    /\ UNCHANGED <<dinputs, workingExists, destKind, destSize, ops, created, fdOpen,
                   preallocated, deferReg, success, retErr, dprogress>>
    /\ UNCHANGED notSingle

\* 190-195 without 191-193: every error of the copy is wrapped
CheckErrWrapsAlways ==
    /\ IF copyErr
          THEN DReturn("CheckErr", "copy error")
          ELSE DGoto("CheckErr", "Truncate") /\ UNCHANGED retErr
    /\ UNCHANGED <<dinputs, dfiles, created, fdOpen, preallocated, deferReg,
                   success, written, chunk, copyErr, dprogress>>
    /\ UNCHANGED notSingle

\* 190-195
CheckErr ==
    /\ IF copyErr
          THEN DReturn("CheckErr", IF cancelled THEN "context canceled" ELSE "copy error")
          ELSE DGoto("CheckErr", "Truncate") /\ UNCHANGED retErr
    /\ UNCHANGED <<dinputs, dfiles, created, fdOpen, preallocated, deferReg,
                   success, written, chunk, copyErr, dprogress>>
    /\ UNCHANGED notSingle

(***************************************************************************)
(* The end of Download (downloader.go:197-238)                             *)
(***************************************************************************)
\* 197: the preallocation overshot, or fell short of, what was written
NeverTruncate == FALSE

NeedsTruncate == preallocated /\ written # fileSize

\* 197-201
Truncate ==
    /\ IF NeedsTruncate
          THEN /\ Called("Truncate")
               /\ \/ /\ DGoto("Truncate", "Sync")
                     /\ workingSize' = written
                     /\ UNCHANGED retErr
                  \/ /\ DReturn("Truncate", "truncate error")
                     /\ UNCHANGED workingSize
          ELSE /\ DGoto("Truncate", "Sync")
               /\ UNCHANGED <<workingSize, ops, retErr>>
    /\ UNCHANGED <<dinputs, workingExists, destKind, destSize, created, fdOpen,
                   preallocated, deferReg, success, written, chunk, copyErr, dprogress>>
    /\ UNCHANGED notSingle

\* 203-205
Sync ==
    /\ \/ DGoto("Sync", "Close") /\ UNCHANGED retErr
       \/ DReturn("Sync", "sync error")
    /\ Called("Sync")
    /\ UNCHANGED <<dinputs, workingExists, workingSize, destKind, destSize,
                   created, fdOpen, preallocated, deferReg, success, written,
                   chunk, copyErr, dprogress>>
    /\ UNCHANGED notSingle

\* 206-208: the descriptor is gone whether or not Close reports an error
Close ==
    /\ \/ DGoto("Close", IF stateNil THEN "Rename" ELSE "StoreDownloaded") /\ UNCHANGED retErr
       \/ DReturn("Close", "close error")
    /\ fdOpen' = FALSE
    /\ Called("Close")
    /\ UNCHANGED <<dinputs, workingExists, workingSize, destKind, destSize,
                   created, preallocated, deferReg, success, written,
                   chunk, copyErr, dprogress>>
    /\ UNCHANGED notSingle

\* 211: d.State.Downloaded.Store(written)
StoreDownloaded ==
    /\ DGoto("StoreDownloaded", "StoreVerified")
    /\ downloaded' = written
    /\ UNCHANGED <<dinputs, dfiles, dlocals, verified, prWritten, prPending, readChecks>>
    /\ UNCHANGED notSingle

\* 212: d.State.VerifiedProgress.Store(written)
StoreVerified ==
    /\ DGoto("StoreVerified", "Rename")
    /\ verified' = written
    /\ UNCHANGED <<dinputs, dfiles, dlocals, downloaded, prWritten, prPending, readChecks>>
    /\ UNCHANGED notSingle

\* 216: os.Rename moves the working file to destPath, or fails and leaves both
\* as they were
Rename ==
    /\ \/ /\ DGoto("Rename", "Success")
          /\ workingExists' = FALSE
          /\ destKind' = "new"
          /\ destSize' = workingSize
       \/ /\ DGoto("Rename", "CopyFile")
          /\ UNCHANGED <<workingExists, destKind, destSize>>
    /\ Called("Rename")
    /\ UNCHANGED <<dinputs, workingSize, dlocals, dprogress>>
    /\ UNCHANGED notSingle

\* 218-220, copyFile (316-343): the copy fails before dst is created, fails
\* after, or succeeds
CopyFile ==
    /\ \/ /\ DGoto("CopyFile", "RemoveWorking")
          /\ destKind' = "new"
          /\ destSize' = workingSize
          /\ UNCHANGED retErr
       \/ /\ DReturn("CopyFile", "failed to finalize file")
          /\ UNCHANGED <<destKind, destSize>>
       \/ /\ DReturn("CopyFile", "failed to finalize file")
          /\ destKind' = "partial"
          /\ UNCHANGED destSize
    /\ Called("CopyFile")
    /\ UNCHANGED <<dinputs, workingExists, workingSize, created, fdOpen,
                   preallocated, deferReg, success, written, chunk, copyErr, dprogress>>
    /\ UNCHANGED notSingle

\* 221: _ = os.Remove(workingPath)
RemoveWorking ==
    /\ DGoto("RemoveWorking", "Success")
    /\ workingExists' = FALSE
    /\ Called("Remove")
    /\ UNCHANGED <<dinputs, workingSize, destKind, destSize, dlocals, dprogress>>
    /\ UNCHANGED notSingle

\* 224-237: success = true; return nil
Success ==
    /\ DReturn("Success", "nil")
    /\ success' = TRUE
    /\ UNCHANGED <<dinputs, dfiles, created, fdOpen, preallocated, deferReg,
                   written, chunk, copyErr, dprogress>>
    /\ UNCHANGED notSingle

\* 169-174, run as Download returns: close outFile, and remove the working
\* file unless success is set
Deferred ==
    /\ DGoto("Deferred", "Returned")
    /\ IF deferReg
          THEN /\ fdOpen' = FALSE
               /\ workingExists' = IF success THEN workingExists ELSE FALSE
               /\ ops' = ops \o <<"DeferredClose">>
                            \o (IF success THEN <<>> ELSE <<"DeferredRemove">>)
          ELSE UNCHANGED <<fdOpen, workingExists, ops>>
    /\ UNCHANGED <<dinputs, workingSize, destKind, destSize, created, preallocated,
                   deferReg, success, written, chunk, copyErr, retErr, dprogress>>
    /\ UNCHANGED notSingle

NextSingle ==
    \/ DownloadCall
    \/ CancelContext
    \/ NewRequest
    \/ ClientDo
    \/ Create
    \/ Preallocate
    \/ CopyRead
    \/ FlushDownloaded
    \/ FlushVerified
    \/ CopyWrite
    \/ CheckErr
    \/ Truncate
    \/ Sync
    \/ Close
    \/ StoreDownloaded
    \/ StoreVerified
    \/ Rename
    \/ CopyFile
    \/ RemoveWorking
    \/ Success
    \/ Deferred

(***************************************************************************)
(* The redirect policy of newSingleClient (downloader.go:59-76), driven by *)
(* http.Client.Do: on a 3xx answer the library builds the follow-up        *)
(* request, hands it to CheckRedirect with the requests made so far, and   *)
(* sends it unless CheckRedirect returns an error.                         *)
(***************************************************************************)
HeaderKeys == {"Range", "Authorization", "Cookie", "X-User"}

\* a header that is not set
Absent == "absent"

\* the value the caller gave a header
Given(k) == IF k = "Range" THEN "bytes=0-0" ELSE "given"

\* the headers a caller can send: each key set to its value, or not set
Headers == [HeaderKeys -> {Absent, "given", "bytes=0-0"}]

CallerHeaders == {h \in Headers : \A k \in HeaderKeys : h[k] \in {Absent, Given(k)}}

\* the headers the library puts on a follow-up request before it calls
\* CheckRedirect: those of the original request, less the ones it drops
LibraryHeaders(orig) == {h \in Headers : \A k \in HeaderKeys : h[k] \in {Absent, orig[k]}}

RInit ==
    /\ rpc = "idle"
    /\ origHeader = [k \in HeaderKeys |-> Absent]
    /\ reqHeader = [k \in HeaderKeys |-> Absent]
    /\ via = 0
    /\ rStatus = 0
    /\ rErr = "nil"

\* 68-72 left out: the follow-up request keeps what the library gave it
KeepLibraryHeaders(req, orig) == req

\* 68-72: every header of via[0] is set on req
CopyOriginalHeaders(req, orig) ==
    [k \in HeaderKeys |-> IF orig[k] # Absent THEN orig[k] ELSE req[k]]

\* 64-74: the error CheckRedirect returns and the headers it leaves on req
CheckRedirect(req, viaLen, orig) ==
    IF viaLen >= MaxVia
       THEN [err |-> "stopped after 10 redirects", header |-> req]
       ELSE [err |-> "nil",
             header |-> IF viaLen > 0 THEN CopyOriginalHeaders(req, orig) ELSE req]

\* Client.Do sends the caller's request
ClientSend ==
    /\ rpc = "idle"
    /\ \E h \in CallerHeaders : origHeader' = h /\ reqHeader' = h
    /\ rpc' = "sent"
    /\ UNCHANGED <<via, rStatus, rErr>>
    /\ UNCHANGED notRedirect

\* the server of probe_redirect_test.go:13-19 answers the request in flight
TargetStatus(h) == IF h["Range"] = "bytes=0-0" THEN 206 ELSE 200

ServerAnswers ==
    /\ rpc = "sent"
    /\ rpc' = "done"
    /\ rStatus' = TargetStatus(reqHeader)
    /\ UNCHANGED <<origHeader, reqHeader, via, rErr>>
    /\ UNCHANGED notRedirect

\* the server of probe_redirect_test.go:23-25 answers with a redirect
ServerRedirects ==
    /\ rpc = "sent"
    /\ via < MaxChain
    /\ rpc' = "redirected"
    /\ UNCHANGED <<origHeader, reqHeader, via, rStatus, rErr>>
    /\ UNCHANGED notRedirect

\* the library builds the follow-up request and asks CheckRedirect
FollowRedirect ==
    /\ rpc = "redirected"
    /\ via' = via + 1
    /\ \E h \in LibraryHeaders(origHeader) :
          LET r == CheckRedirect(h, via', origHeader) IN
             /\ reqHeader' = r.header
             /\ rErr' = r.err
             /\ rpc' = IF r.err = "nil" THEN "sent" ELSE "done"
    /\ UNCHANGED <<origHeader, rStatus>>
    /\ UNCHANGED notRedirect

NextRedirect ==
    \/ ClientSend
    \/ ServerAnswers
    \/ ServerRedirects
    \/ FollowRedirect

(***************************************************************************)
(* getSharedSingleTransport (downloader.go:78-91): the cache of transports, *)
(* a sync.Map whose Load and LoadOrStore are each atomic, called from any   *)
(* number of goroutines.                                                    *)
(***************************************************************************)
Callers == 1 .. NumCallers

\* 30-33: singleTransportKey, over the settings a runtime can have
ProxyURLs == {"", "http://proxy.example:3128"}

ConnLimits == {4, 8}

singleTransportKey == [proxyURL : ProxyURLs, maxConns : ConnLimits]

\* no *http.Transport: the key is not in the map
NoTransport == 0

TInit ==
    /\ singleTransportCache = [k \in singleTransportKey |-> NoTransport]
    /\ tpc = [c \in Callers |-> "idle"]
    /\ key = [c \in Callers |-> [proxyURL |-> "", maxConns |-> 4]]
    /\ transport = [c \in Callers |-> NoTransport]
    /\ made = 0
    /\ returned = <<>>

\* calls made so far, returned or not
CallsMade == Len(returned) + Cardinality({c \in Callers : tpc[c] # "idle"})

\* return actual.(*http.Transport)
TransportReturn(c, t) ==
    /\ returned' = Append(returned, [caller |-> c, key |-> key[c], transport |-> t])
    /\ tpc' = [tpc EXCEPT ![c] = "idle"]

\* 79-82: the key of the caller's runtime
GetSharedSingleTransport(c) ==
    /\ tpc[c] = "idle"
    /\ CallsMade < MaxCalls
    /\ \E k \in singleTransportKey : key' = [key EXCEPT ![c] = k]
    /\ tpc' = [tpc EXCEPT ![c] = "Load"]
    /\ transport' = [transport EXCEPT ![c] = NoTransport]
    /\ UNCHANGED <<singleTransportCache, made, returned>>
    /\ UNCHANGED notTransport

\* 84-86: singleTransportCache.Load(key)
CacheLoad(c) ==
    /\ tpc[c] = "Load"
    /\ IF singleTransportCache[key[c]] # NoTransport
          THEN TransportReturn(c, singleTransportCache[key[c]])
          ELSE tpc' = [tpc EXCEPT ![c] = "New"] /\ UNCHANGED returned
    /\ UNCHANGED <<singleTransportCache, key, transport, made>>
    /\ UNCHANGED notTransport

\* 88: newSingleTransport allocates a transport
NewSingleTransport(c) ==
    /\ tpc[c] = "New"
    /\ made' = made + 1
    /\ transport' = [transport EXCEPT ![c] = made + 1]
    /\ tpc' = [tpc EXCEPT ![c] = "LoadOrStore"]
    /\ UNCHANGED <<singleTransportCache, key, returned>>
    /\ UNCHANGED notTransport

\* sync.Map.Store in place of LoadOrStore: the value is stored whatever the
\* map holds, and handed back
StoreOnly(cache, k, value) ==
    [cache |-> [cache EXCEPT ![k] = value], actual |-> value]

\* sync.Map.LoadOrStore: the value the map holds for the key if there is one,
\* else the given value, which is stored
LoadOrStore(cache, k, value) ==
    IF cache[k] # NoTransport
       THEN [cache |-> cache, actual |-> cache[k]]
       ELSE [cache |-> [cache EXCEPT ![k] = value], actual |-> value]

\* 89-90
CacheLoadOrStore(c) ==
    /\ tpc[c] = "LoadOrStore"
    /\ LET r == LoadOrStore(singleTransportCache, key[c], transport[c]) IN
          /\ singleTransportCache' = r.cache
          /\ TransportReturn(c, r.actual)
    /\ UNCHANGED <<key, transport, made>>
    /\ UNCHANGED notTransport

NextTransport ==
    \E c \in Callers :
        \/ GetSharedSingleTransport(c)
        \/ CacheLoad(c)
        \/ NewSingleTransport(c)
        \/ CacheLoadOrStore(c)

(***************************************************************************)
(* The persistence store: SaveState, LoadState and DeleteState as the tests *)
(* of resume_lifecycle_test.go:282-421 call them, over the two tables of    *)
(* the store.  Each call is one transaction.                                *)
(***************************************************************************)
\* the URLs of TestStateOverwrite (377) and TestDeleteState (345)
URLs == {"https://test.example.com/overwrite-test.zip",
         "https://test.example.com/delete-test.zip"}

\* the fingerprint of a URL: the first 16 hex digits of its SHA-256, as the
\* sequence of its characters (55a9cbfa7ab8d158, 9f576db887076c78)
URLHash(url) ==
    CASE url = "https://test.example.com/overwrite-test.zip" ->
            <<"5", "5", "a", "9", "c", "b", "f", "a", "7", "a", "b", "8", "d", "1", "5", "8">>
      [] url = "https://test.example.com/delete-test.zip" ->
            <<"9", "f", "5", "7", "6", "d", "b", "8", "8", "7", "0", "7", "6", "c", "7", "8">>

\* the Filename the tests give the state of a URL (386, 348)
FilenameOf(url) ==
    CASE url = "https://test.example.com/overwrite-test.zip" -> "overwrite-test.zip"
      [] url = "https://test.example.com/delete-test.zip" -> "delete-test.zip"

\* Tasks: the ranges still to fetch when d of total bytes are there: none,
\* the rest as one task (381, 393), or the rest split in two (291-294)
TaskLists(d, total) ==
    {<<>>}
    \cup (IF d < total THEN {<<[Offset |-> d, Length |-> total - d]>>} ELSE {})
    \cup {<<[Offset |-> d, Length |-> m - d], [Offset |-> m, Length |-> total - m]>> :
             m \in d + 1 .. total - 1}

\* the IDs a download of a URL can run under ("id-1" is the one of line 67)
DownloadIDs == {"id-1", "id-2"}

\* the DownloadState values handed to SaveState: the zero state of
\* TestDeleteState (346-349), and states of a download of MaxSize bytes
DownloadStates(url) ==
    {[URL |-> url, ID |-> "id-1", URLHash |-> <<>>, TotalSize |-> 0, Downloaded |-> 0,
      Filename |-> FilenameOf(url), Tasks |-> <<>>]}
    \cup UNION {{[URL |-> url, ID |-> "id-1", URLHash |-> <<>>, TotalSize |-> MaxSize,
                  Downloaded |-> d, Filename |-> FilenameOf(url), Tasks |-> ts] :
                    ts \in TaskLists(d, MaxSize)} : d \in 0 .. MaxSize}

\* the states of the downloads of one URL that run under different IDs: d
\* bytes of MaxSize are there, the rest is one task
DownloadsOfURL(url) ==
    {[URL |-> url, ID |-> id, URLHash |-> <<>>, TotalSize |-> MaxSize, Downloaded |-> d,
      Filename |-> FilenameOf(url),
      Tasks |-> IF d < MaxSize THEN <<[Offset |-> d, Length |-> MaxSize - d]>> ELSE <<>>] :
        id \in DownloadIDs, d \in 0 .. MaxSize}

NoCall == [op |-> "none", url |-> "", state |-> <<>>]

SInit ==
    /\ downloadsTable = {}
    /\ tasksTable = {}
    /\ ret = [err |-> "nil", state |-> <<>>]
    /\ lastCall = NoCall
    /\ prevCall = NoCall
    /\ firstCall = NoCall

\* the call is recorded
Call(op, url, state) ==
    /\ lastCall' = [op |-> op, url |-> url, state |-> state]
    /\ prevCall' = lastCall
    /\ firstCall' = prevCall

\* SaveState without state.URLHash = URLHash(url): the row keeps the hash
\* the caller's state came with
DownloadRowOfState(h, state) ==
    [url_hash |-> state.URLHash, id |-> state.ID, url |-> state.URL,
     filename |-> state.Filename, total_size |-> state.TotalSize,
     downloaded |-> state.Downloaded]

\* the row of downloads for a state saved under hash h
DownloadRow(h, state) ==
    [url_hash |-> h, id |-> state.ID, url |-> state.URL, filename |-> state.Filename,
     total_size |-> state.TotalSize, downloaded |-> state.Downloaded]

\* the rows of tasks for the task list of a state saved under hash h
TaskRows(h, ts) ==
    {[url_hash |-> h, chunk_index |-> i - 1, offset |-> ts[i].Offset,
      length |-> ts[i].Length] : i \in 1 .. Len(ts)}

\* an upsert on the download ID: a row per ID
UpsertOnID(table, row) == {r \in table : r.id # row.id} \cup {row}

\* upsert on url_hash
Upsert(table, row) == {r \in table : r.url_hash # row.url_hash} \cup {row}

\* a save that adds its task rows to the ones the table has
MergeTasks(table, h, ts) == table \cup TaskRows(h, ts)

\* replace the tasks rows of h
ReplaceTasks(table, h, ts) == {r \in table : r.url_hash # h} \cup TaskRows(h, ts)

\* save(state): upsert on url_hash, replace tasks rows
Save(States) ==
    /\ \E url \in URLs : \E state \in States[url] :
          LET h == URLHash(url) IN
             /\ downloadsTable' = Upsert(downloadsTable, DownloadRow(h, state))
             /\ tasksTable' = ReplaceTasks(tasksTable, h, state.Tasks)
             /\ Call("SaveState", url, <<state>>)
    /\ ret' = [err |-> "nil", state |-> <<>>]
    /\ UNCHANGED notStore

\* SaveState(url, state) as the tests of the store call it
SaveState == Save([url \in URLs |-> DownloadStates(url)])

\* SaveState(url, state) for the downloads of a URL under their IDs
SaveStateOfDownload == Save([url \in URLs |-> DownloadsOfURL(url)])

\* rows of tasks in the order of chunk_index (then of offset and length)
RowBefore(x, y) ==
    \/ x.chunk_index < y.chunk_index
    \/ /\ x.chunk_index = y.chunk_index
       /\ \/ x.offset < y.offset
          \/ x.offset = y.offset /\ x.length <= y.length

RECURSIVE TasksInOrder(_)
TasksInOrder(rows) ==
    IF rows = {}
       THEN <<>>
       ELSE LET r == CHOOSE x \in rows : \A y \in rows : RowBefore(x, y) IN
               <<[Offset |-> r.offset, Length |-> r.length]>> \o TasksInOrder(rows \ {r})

\* the state LoadState builds from a row of downloads and the tasks rows
LoadedState(row) ==
    [URL |-> row.url, ID |-> row.id, URLHash |-> row.url_hash, TotalSize |-> row.total_size,
     Downloaded |-> row.downloaded, Filename |-> row.filename,
     Tasks |-> TasksInOrder({t \in tasksTable : t.url_hash = row.url_hash})]

\* load_by_hash(URLHash(url)): the state, or an error when there is no row
LoadState ==
    /\ \E url \in URLs :
          LET rows == {r \in downloadsTable : r.url_hash = URLHash(url)} IN
             /\ ret' = IF rows = {}
                          THEN [err |-> "not found", state |-> <<>>]
                          ELSE [err |-> "nil", state |-> <<LoadedState(CHOOSE r \in rows : TRUE)>>]
             /\ Call("LoadState", url, <<>>)
    /\ UNCHANGED <<downloadsTable, tasksTable>>
    /\ UNCHANGED notStore

\* a delete that leaves the dependent rows
KeepDependents(table, h) == table

\* the cascade: the tasks rows of h go with the row of downloads
DeleteDependents(table, h) == {r \in table : r.url_hash # h}

\* delete_by_url(url), cascade
DeleteState ==
    /\ \E url \in URLs :
          LET h == URLHash(url) IN
             /\ downloadsTable' = {r \in downloadsTable : r.url_hash # h}
             /\ tasksTable' = DeleteDependents(tasksTable, h)
             /\ Call("DeleteState", url, <<>>)
    /\ ret' = [err |-> "nil", state |-> <<>>]
    /\ UNCHANGED notStore

NextStore ==
    \/ SaveState
    \/ LoadState
    \/ DeleteState

NextStoreOfDownloads ==
    \/ SaveStateOfDownload
    \/ LoadState
    \/ DeleteState

(***************************************************************************)
(* Destination paths across pause and resume.  The steps are those of      *)
(* TestResume_RespectsOriginalPath_WhenDefaultChanges; startDownload,       *)
(* utils.EnsureAbsPath and state.LoadPausedDownloads are modelled from      *)
(* "dest_path (absolute)" in the specification.  A path is whether it is    *)
(* absolute and its sequence of elements; "." is the relative path of no    *)
(* element.                                                                 *)
(***************************************************************************)
Path(abs, elems) == [abs |-> abs, elems |-> elems]

\* the directories that can be the default directory and the working directory
Dirs == {Path(TRUE, <<"tmp", "DirA">>), Path(TRUE, <<"tmp", "DirB">>), Path(TRUE, <<"tmp", "DirC">>)}

\* the output paths a download is started with
OutputPaths == {Path(FALSE, <<>>), Path(FALSE, <<"sub">>), Path(TRUE, <<"data">>)}

Filenames == {"file.zip", "other.zip"}

NoPath == <<>>

\* filepath.Join(dir, name)
Join(dir, name) == Path(dir.abs, Append(dir.elems, name))

\* filepath.Dir(p): p without its last element
Dir(p) == Path(p.abs, IF p.elems = <<>> THEN <<>> ELSE SubSeq(p.elems, 1, Len(p.elems) - 1))

\* the path is left as it is
EnsureAbsPathKeeps(p, wd) == p

\* utils.EnsureAbsPath(p): an absolute path is kept, a relative one is taken
\* from the working directory
EnsureAbsPath(p, wd) == IF p.abs THEN p ELSE Path(TRUE, wd.elems \o p.elems)

\* canonicalForCompare(p): filepath.Abs of the cleaned path, in the working
\* directory of the moment
canonicalForCompare(p, wd) == IF p.abs THEN p ELSE Path(TRUE, wd.elems \o p.elems)

PInit ==
    /\ cwd = Path(TRUE, <<"tmp", "DirA">>)
    /\ DefaultDownloadDir = Path(TRUE, <<"tmp", "DirA">>)
    /\ request = NoPath
    /\ Destination = NoPath
    /\ dest_path = NoPath
    /\ entry = NoPath
    /\ outputPath = NoPath
    /\ ppc = "idle"

\* settings.General.DefaultDownloadDir = dir; os.Chdir(dir)
ChangeDefaultDir ==
    /\ \E dir \in Dirs :
          /\ dir # cwd
          /\ cwd' = dir
          /\ DefaultDownloadDir' = dir
    /\ UNCHANGED <<request, Destination, dest_path, entry, outputPath, ppc>>
    /\ UNCHANGED notPaths

\* m.startDownload(url, nil, nil, path, filename, id)
startDownload ==
    /\ ppc = "idle"
    /\ \E path \in OutputPaths : \E filename \in Filenames :
          /\ request' = [path |-> path, filename |-> filename, dir |-> DefaultDownloadDir]
          /\ Destination' = Join(EnsureAbsPath(path, cwd), filename)
    /\ ppc' = "started"
    /\ UNCHANGED <<cwd, DefaultDownloadDir, dest_path, entry, outputPath>>
    /\ UNCHANGED notPaths

\* state.SaveState(dm.URL, dm.Destination, state) of the paused download
SavePaused ==
    /\ ppc = "started"
    /\ dest_path' = Destination
    /\ ppc' = "paused"
    /\ UNCHANGED <<cwd, DefaultDownloadDir, request, Destination, entry, outputPath>>
    /\ UNCHANGED notPaths

\* state.LoadPausedDownloads()
LoadPausedDownloads ==
    /\ ppc = "paused"
    /\ entry' = [DestPath |-> dest_path]
    /\ ppc' = "loaded"
    /\ UNCHANGED <<cwd, DefaultDownloadDir, request, Destination, dest_path, outputPath>>
    /\ UNCHANGED notPaths

\* the output directory of the resumed download
ResumeOutputPath ==
    /\ ppc = "loaded"
    /\ LET dir == Dir(entry.DestPath) IN
          outputPath' = EnsureAbsPath(IF dir = Path(FALSE, <<>>) THEN DefaultDownloadDir ELSE dir, cwd)
    /\ ppc' = "resumed"
    /\ UNCHANGED <<cwd, DefaultDownloadDir, request, Destination, dest_path, entry>>
    /\ UNCHANGED notPaths

\* the download is removed and another can be started
RemovePaused ==
    /\ ppc = "resumed"
    /\ request' = NoPath
    /\ Destination' = NoPath
    /\ dest_path' = NoPath
    /\ entry' = NoPath
    /\ outputPath' = NoPath
    /\ ppc' = "idle"
    /\ UNCHANGED <<cwd, DefaultDownloadDir>>
    /\ UNCHANGED notPaths

NextPaths ==
    \/ ChangeDefaultDir
    \/ startDownload
    \/ SavePaused
    \/ LoadPausedDownloads
    \/ ResumeOutputPath
    \/ RemovePaused

(***************************************************************************)
(* The event codec of internal/engine/events.  A Go value is modelled with *)
(* its nil: a slice or map is [isnil, elems], an error is [isnil, text], a *)
(* pointer is "nil" or an address, a float is its text ("NaN" is the value *)
(* encoding/json refuses).  The data of a frame is the JSON object its     *)
(* bytes spell: a function from the keys present to JSON values [t, v].    *)
(***************************************************************************)
MaxEntries == 2

NilSlice == [isnil |-> TRUE, elems |-> <<>>]
Slice(elems) == [isnil |-> FALSE, elems |-> elems]
NilError == [isnil |-> TRUE, text |-> ""]
errorsNew(text) == [isnil |-> FALSE, text |-> text]

KnownKinds ==
    {"ProgressMsg", "DownloadStartedMsg", "DownloadCompleteMsg", "DownloadErrorMsg",
     "DownloadPausedMsg", "DownloadResumedMsg", "DownloadQueuedMsg",
     "DownloadRemovedMsg", "DownloadRequestMsg", "SystemLogMsg"}

\* the fields of each message struct and their Go types
FieldTypes(kind) ==
    CASE kind = "ProgressMsg" ->
            [DownloadID |-> "string", Downloaded |-> "int", Total |-> "int",
             Speed |-> "float", Elapsed |-> "int", ActiveConnections |-> "int",
             ChunkBitmap |-> "bytes", BitmapWidth |-> "int",
             ActualChunkSize |-> "int", ChunkProgress |-> "slice"]
      [] kind = "DownloadCompleteMsg" ->
            [DownloadID |-> "string", Filename |-> "string", Elapsed |-> "int",
             Total |-> "int", AvgSpeed |-> "float"]
      [] kind = "DownloadErrorMsg" ->
            [DownloadID |-> "string", Filename |-> "string", Err |-> "error"]
      [] kind = "DownloadStartedMsg" ->
            [DownloadID |-> "string", URL |-> "string", Filename |-> "string",
             Total |-> "int", DestPath |-> "string", State |-> "ptr"]
      [] kind = "DownloadPausedMsg" ->
            [DownloadID |-> "string", Filename |-> "string", Downloaded |-> "int"]
      [] kind = "DownloadResumedMsg" ->
            [DownloadID |-> "string", Filename |-> "string"]
      [] kind = "DownloadQueuedMsg" ->
            [DownloadID |-> "string", Filename |-> "string", URL |-> "string",
             DestPath |-> "string"]
      [] kind = "DownloadRemovedMsg" ->
            [DownloadID |-> "string", Filename |-> "string"]
      [] kind = "SystemLogMsg" ->
            [Message |-> "string"]
      [] kind = "DownloadRequestMsg" ->
            [ID |-> "string", URL |-> "string", Filename |-> "string",
             Path |-> "string", Mirrors |-> "slice", Headers |-> "map"]
      [] OTHER -> <<>>

\* the fields encoding/json reads and writes: all but those tagged json:"-"
JSONFields(kind) ==
    DOMAIN FieldTypes(kind) \ (IF kind = "DownloadStartedMsg" THEN {"State"} ELSE {})

\* the Go zero value of a type
ZeroValue(type) ==
    CASE type = "string" -> ""
      [] type = "int" -> 0
      [] type = "float" -> "0"
      [] type = "ptr" -> "nil"
      [] type = "error" -> NilError
      [] OTHER -> NilSlice

\* a message of a kind: the zero value with some fields set
Msg(kind, set) ==
    [f \in DOMAIN FieldTypes(kind) \cup {"kind"} |->
        IF f = "kind" THEN kind
        ELSE IF f \in DOMAIN set THEN set[f]
        ELSE ZeroValue(FieldTypes(kind)[f])]

ProgressMsgs ==
    { Msg("ProgressMsg", [DownloadID |-> id, Downloaded |-> IF id = "a" THEN 1 ELSE 2,
                          Total |-> 10, Speed |-> speed, ChunkProgress |-> cp]) :
        id \in {"a", "b"}, speed \in {"1.5", "NaN"}, cp \in {NilSlice, Slice(<<1>>)} }

RECURSIVE SeqsUpTo(_, _)
SeqsUpTo(S, n) ==
    IF n = 0 THEN {<<>>}
    ELSE SeqsUpTo(S, n - 1) \cup { Append(s, x) : s \in {t \in SeqsUpTo(S, n - 1) : Len(t) = n - 1}, x \in S }

BatchProgressMsgs ==
    { [kind |-> "BatchProgressMsg", entries |-> es] : es \in SeqsUpTo(ProgressMsgs, MaxEntries) }

DownloadErrorMsgs ==
    { Msg("DownloadErrorMsg", [DownloadID |-> "dl-1", Filename |-> fn, Err |-> e]) :
        fn \in {"", "file.bin"}, e \in {NilError, errorsNew(""), errorsNew("boom")} }

DownloadStartedMsgs ==
    { Msg("DownloadStartedMsg", [DownloadID |-> "dl-1", URL |-> "http://example.com/file.zip",
                                 Filename |-> "file.zip", Total |-> 10,
                                 DestPath |-> "/tmp/DirA/file.zip", State |-> st]) :
        st \in {"nil", "0xc000010000"} }

DownloadCompleteMsgs ==
    { Msg("DownloadCompleteMsg", [DownloadID |-> "dl-1", Filename |-> "file.zip",
                                  Elapsed |-> 3, Total |-> 10, AvgSpeed |-> sp]) :
        sp \in {"0", "1.5"} }

DownloadRequestMsgs ==
    { Msg("DownloadRequestMsg", [ID |-> "dl-1", URL |-> "http://example.com/file.zip",
                                 Mirrors |-> mi, Headers |-> h]) :
        mi \in {NilSlice, Slice(<<>>), Slice(<<"http://mirror.example.com/file.zip">>)},
        h \in {NilSlice, Slice(<<<<"Cookie", "c=1">>>>)} }

OtherMsgs ==
    { Msg("DownloadPausedMsg", [DownloadID |-> "dl-1", Filename |-> "file.zip", Downloaded |-> 4]),
      Msg("DownloadResumedMsg", [DownloadID |-> "dl-1", Filename |-> "file.zip"]),
      Msg("DownloadQueuedMsg", [DownloadID |-> "dl-1", Filename |-> "file.zip",
                                URL |-> "http://example.com/file.zip"]),
      Msg("DownloadRemovedMsg", [DownloadID |-> "dl-1"]),
      Msg("SystemLogMsg", [Message |-> "hello"]),
      Msg("SystemLogMsg", <<>>),
      Msg("struct{}", <<>>) }

JSON(t, v) == [t |-> t, v |-> v]

\* json.Marshal of one Go value
ToJSON(type, v) ==
    CASE type = "string" -> JSON("string", v)
      [] type \in {"int", "float"} -> JSON("number", v)
      [] type = "bytes" -> IF v.isnil THEN JSON("null", <<>>) ELSE JSON("string", v.elems)
      [] type = "slice" -> IF v.isnil THEN JSON("null", <<>>) ELSE JSON("array", v.elems)
      [] type = "map" -> IF v.isnil THEN JSON("null", <<>>) ELSE JSON("object", v.elems)

\* json.Unmarshal of one JSON value into a Go value of a type
FromJSON(type, jv) ==
    CASE type \in {"string", "int", "float"} -> jv.v
      [] OTHER -> Slice(jv.v)

\* whether json.Unmarshal accepts a JSON value for a Go type; null is accepted
\* by every type and changes nothing
Accepts(type, jv) ==
    \/ jv.t = "null"
    \/ type \in {"string", "bytes"} /\ jv.t = "string"
    \/ type \in {"int", "float"} /\ jv.t = "number"
    \/ type = "slice" /\ jv.t = "array"
    \/ type = "map" /\ jv.t = "object"

\* json.Marshal of a struct without a MarshalJSON method
MarshalStruct(m) ==
    LET types == FieldTypes(m.kind) IN
    IF \E f \in JSONFields(m.kind) : types[f] = "float" /\ m[f] = "NaN"
    THEN [err |-> "json: unsupported value: NaN", data |-> <<>>]
    ELSE [err |-> "nil", data |-> [f \in JSONFields(m.kind) |-> ToJSON(types[f], m[f])]]

\* DownloadErrorMsg.MarshalJSON
MarshalJSON(m) ==
    LET out == [DownloadID |-> m.DownloadID,
                Filename   |-> m.Filename,
                Err        |-> IF ~m.Err.isnil THEN m.Err.text ELSE ""]
        kept == {"DownloadID"} \cup {f \in {"Filename", "Err"} : out[f] # ""}
    IN  [err |-> "nil", data |-> [f \in kept |-> JSON("string", out[f])]]

\* json.Marshal(msg)
Marshal(m) ==
    IF m.kind = "DownloadErrorMsg" THEN MarshalJSON(m) ELSE MarshalStruct(m)

\* json.Unmarshal into a struct without an UnmarshalJSON method
UnmarshalStruct(kind, data) ==
    LET types == FieldTypes(kind)
        given == DOMAIN data \cap JSONFields(kind)
    IN  IF \E f \in given : ~Accepts(types[f], data[f])
        THEN [err |-> "json: cannot unmarshal", msg |-> <<>>]
        ELSE [err |-> "nil",
              msg |-> Msg(kind, [f \in {g \in given : data[g].t # "null"} |->
                                     FromJSON(types[f], data[f])])]

\* every Err decodes to nil
UnmarshalJSONDropsErr(data) ==
    IF \E f \in DOMAIN data \cap {"DownloadID", "Filename"} : ~Accepts("string", data[f])
    THEN [err |-> "json: cannot unmarshal", msg |-> <<>>]
    ELSE [err |-> "nil",
          msg |-> Msg("DownloadErrorMsg",
                      [f \in {g \in DOMAIN data \cap {"DownloadID", "Filename"} : data[g].t # "null"} |->
                          data[f].v])]

\* DownloadErrorMsg.UnmarshalJSON
UnmarshalJSON(data) ==
    IF \E f \in DOMAIN data \cap {"DownloadID", "Filename"} : ~Accepts("string", data[f])
    THEN [err |-> "json: cannot unmarshal", msg |-> <<>>]
    ELSE LET aux == [f \in {g \in DOMAIN data \cap {"DownloadID", "Filename"} : data[g].t # "null"} |->
                         data[f].v]
             Err == IF "Err" \notin DOMAIN data THEN NilError
                    ELSE IF data.Err.t = "string"
                         THEN (IF data.Err.v # "" THEN errorsNew(data.Err.v) ELSE NilError)
                    ELSE IF data.Err.t = "null" THEN NilError
                    ELSE errorsNew(data.Err.t)
         IN  [err |-> "nil",
              msg |-> [Msg("DownloadErrorMsg", aux) EXCEPT !.Err = Err]]

\* json.Unmarshal(data, &m) for m of a kind
Unmarshal(kind, data) ==
    IF kind = "DownloadErrorMsg" THEN UnmarshalJSON(data) ELSE UnmarshalStruct(kind, data)

\* EventTypeForMessage(msg)
EventTypeForMessage(m) ==
    CASE m.kind = "ProgressMsg" -> [type |-> "progress", ok |-> TRUE]
      [] m.kind = "DownloadStartedMsg" -> [type |-> "started", ok |-> TRUE]
      [] m.kind = "DownloadCompleteMsg" -> [type |-> "complete", ok |-> TRUE]
      [] m.kind = "DownloadErrorMsg" -> [type |-> "error", ok |-> TRUE]
      [] m.kind = "DownloadPausedMsg" -> [type |-> "paused", ok |-> TRUE]
      [] m.kind = "DownloadResumedMsg" -> [type |-> "resumed", ok |-> TRUE]
      [] m.kind = "DownloadQueuedMsg" -> [type |-> "queued", ok |-> TRUE]
      [] m.kind = "DownloadRemovedMsg" -> [type |-> "removed", ok |-> TRUE]
      [] m.kind = "DownloadRequestMsg" -> [type |-> "request", ok |-> TRUE]
      [] m.kind = "SystemLogMsg" -> [type |-> "system", ok |-> TRUE]
      [] OTHER -> [type |-> "", ok |-> FALSE]

SSEMessage(event, data) == [Event |-> event, Data |-> data]

\* the frames of the entries in reverse order
RECURSIVE BatchFramesReversed(_, _)
BatchFramesReversed(entries, sofar) ==
    IF entries = <<>> THEN [frames |-> sofar, err |-> "nil"]
    ELSE LET enc == Marshal(Head(entries)) IN
         IF enc.err # "nil" THEN [frames |-> <<>>, err |-> enc.err]
         ELSE BatchFramesReversed(Tail(entries), <<SSEMessage("progress", enc.data)>> \o sofar)

\* the loop of EncodeSSEMessages over a BatchProgressMsg: frames so far, then
\* the rest of the entries
RECURSIVE BatchFrames(_, _)
BatchFrames(entries, sofar) ==
    IF entries = <<>> THEN [frames |-> sofar, err |-> "nil"]
    ELSE LET enc == Marshal(Head(entries)) IN
         IF enc.err # "nil" THEN [frames |-> <<>>, err |-> enc.err]
         ELSE BatchFrames(Tail(entries), Append(sofar, SSEMessage("progress", enc.data)))

\* EncodeSSEMessages(msg)
EncodeSSEMessages(m) ==
    IF m.kind = "BatchProgressMsg" THEN BatchFrames(m.entries, <<>>)
    ELSE LET et == EventTypeForMessage(m) IN
         IF ~et.ok THEN [frames |-> <<>>, err |-> "nil"]
         ELSE LET enc == Marshal(m) IN
              IF enc.err # "nil" THEN [frames |-> <<>>, err |-> enc.err]
              ELSE [frames |-> <<SSEMessage(et.type, enc.data)>>, err |-> "nil"]

\* the message struct DecodeSSEMessage decodes an event type into
KindOfEvent(eventType) ==
    CASE eventType = "progress" -> "ProgressMsg"
      [] eventType = "started" -> "DownloadStartedMsg"
      [] eventType = "complete" -> "DownloadCompleteMsg"
      [] eventType = "error" -> "DownloadErrorMsg"
      [] eventType = "paused" -> "DownloadPausedMsg"
      [] eventType = "resumed" -> "DownloadResumedMsg"
      [] eventType = "queued" -> "DownloadQueuedMsg"
      [] eventType = "removed" -> "DownloadRemovedMsg"
      [] eventType = "request" -> "DownloadRequestMsg"
      [] eventType = "system" -> "SystemLogMsg"
      [] OTHER -> ""

\* DecodeSSEMessage(eventType, data)
DecodeSSEMessage(eventType, data) ==
    LET kind == KindOfEvent(eventType) IN
    IF kind = "" THEN [msg |-> <<>>, ok |-> FALSE, err |-> "nil"]
    ELSE LET dec == Unmarshal(kind, data) IN
         IF dec.err # "nil" THEN [msg |-> <<>>, ok |-> TRUE, err |-> dec.err]
         ELSE [msg |-> dec.msg, ok |-> TRUE, err |-> "nil"]

\* frames that were not made by EncodeSSEMessages
ForeignFrames ==
    { SSEMessage("not-a-real-event", [x |-> JSON("number", 1)]),
      SSEMessage("progress", [Downloaded |-> JSON("string", "many")]),
      SSEMessage("error", [DownloadID |-> JSON("string", "dl-1"), Err |-> JSON("object", <<>>)]),
      SSEMessage("error", [DownloadID |-> JSON("string", "dl-1"), Err |-> JSON("null", <<>>)]),
      SSEMessage("error", [DownloadID |-> JSON("number", 1)]) }

NoMsg == [kind |-> ""]

EInit ==
    /\ msg = NoMsg
    /\ frames = <<>>
    /\ encErr = "nil"
    /\ decoded = <<>>
    /\ epc = "idle"

Encode(m) ==
    /\ epc = "idle"
    /\ msg' = m
    /\ LET enc == EncodeSSEMessages(m) IN
          /\ frames' = enc.frames
          /\ encErr' = enc.err
    /\ epc' = "encoded"
    /\ UNCHANGED decoded
    /\ UNCHANGED notCodec

EncodeProgress == \E m \in ProgressMsgs : Encode(m)
EncodeBatch == \E m \in BatchProgressMsgs : Encode(m)
EncodeError == \E m \in DownloadErrorMsgs : Encode(m)
EncodeStarted == \E m \in DownloadStartedMsgs : Encode(m)
EncodeComplete == \E m \in DownloadCompleteMsgs : Encode(m)
EncodeRequest == \E m \in DownloadRequestMsgs : Encode(m)
EncodeOther == \E m \in OtherMsgs : Encode(m)

\* a frame arrives that this codec did not encode
ReceiveFrame ==
    /\ epc = "idle"
    /\ \E frame \in ForeignFrames : frames' = <<frame>>
    /\ msg' = NoMsg
    /\ encErr' = "nil"
    /\ epc' = "encoded"
    /\ UNCHANGED decoded
    /\ UNCHANGED notCodec

\* DecodeSSEMessage on each frame held
Decode ==
    /\ epc = "encoded"
    /\ decoded' = [i \in 1..Len(frames) |-> DecodeSSEMessage(frames[i].Event, frames[i].Data)]
    /\ epc' = "decoded"
    /\ UNCHANGED <<msg, frames, encErr>>
    /\ UNCHANGED notCodec

\* the next message
NextMessage ==
    /\ epc = "decoded"
    /\ msg' = NoMsg
    /\ frames' = <<>>
    /\ encErr' = "nil"
    /\ decoded' = <<>>
    /\ epc' = "idle"
    /\ UNCHANGED notCodec

NextCodec ==
    \/ EncodeProgress
    \/ EncodeBatch
    \/ EncodeError
    \/ EncodeStarted
    \/ EncodeComplete
    \/ EncodeRequest
    \/ EncodeOther
    \/ ReceiveFrame
    \/ Decode
    \/ NextMessage

(***************************************************************************)
(* eventsHandler (cmd/http_api.go).  The channel is a queue the service    *)
(* appends to and closes; the select takes whichever of the two cases is   *)
(* ready.                                                                  *)
(***************************************************************************)
MaxSent == 3

\* the messages the service streams
StreamedMsgs ==
    { Msg("DownloadQueuedMsg", [DownloadID |-> "dl-1", Filename |-> "file.zip"]),
      Msg("DownloadPausedMsg", [DownloadID |-> "dl-1", Filename |-> "file.zip", Downloaded |-> 4]),
      Msg("ProgressMsg", [DownloadID |-> "a", Downloaded |-> 1, Total |-> 10, Speed |-> "NaN"]),
      [kind |-> "BatchProgressMsg",
       entries |-> << Msg("ProgressMsg", [DownloadID |-> "a", Downloaded |-> 1, Total |-> 10]),
                      Msg("ProgressMsg", [DownloadID |-> "b", Downloaded |-> 2, Total |-> 10]) >>],
      [kind |-> "BatchProgressMsg", entries |-> <<>>],
      Msg("struct{}", <<>>) }

HInit ==
    /\ stream = <<>>
    /\ streamClosed = FALSE
    /\ ctxDone = FALSE
    /\ sent = 0
    /\ received = <<>>
    /\ responseBody = <<>>
    /\ status = 0
    /\ hpc = "start"

\* the first frame only
WriteFirstFrame(w, fs) == Append(w, fs[1])

\* for _, frame := range frames { Fprintf(w, ...) }
WriteFrames(w, fs) == w \o fs

\* service.StreamEvents fails, or the writer cannot flush: 500 and return
HandlerRefuses ==
    /\ hpc = "start"
    /\ status' = 500
    /\ hpc' = "returned"
    /\ UNCHANGED <<stream, streamClosed, ctxDone, sent, received, responseBody>>
    /\ UNCHANGED notHandler

\* the headers are flushed and the loop begins
HandlerStreams ==
    /\ hpc = "start"
    /\ status' = 200
    /\ hpc' = "streaming"
    /\ UNCHANGED <<stream, streamClosed, ctxDone, sent, received, responseBody>>
    /\ UNCHANGED notHandler

\* the service sends a message
StreamSend ==
    /\ hpc = "streaming"
    /\ ~streamClosed
    /\ sent < MaxSent
    /\ \E m \in StreamedMsgs : stream' = Append(stream, m)
    /\ sent' = sent + 1
    /\ UNCHANGED <<streamClosed, ctxDone, received, responseBody, status, hpc>>
    /\ UNCHANGED notHandler

\* the service closes the channel
StreamClose ==
    /\ hpc = "streaming"
    /\ ~streamClosed
    /\ streamClosed' = TRUE
    /\ UNCHANGED <<stream, ctxDone, sent, received, responseBody, status, hpc>>
    /\ UNCHANGED notHandler

\* the client goes away
ClientDone ==
    /\ hpc = "streaming"
    /\ ~ctxDone
    /\ ctxDone' = TRUE
    /\ UNCHANGED <<stream, streamClosed, sent, received, responseBody, status, hpc>>
    /\ UNCHANGED notHandler

\* case <-done: return
HandleDone ==
    /\ hpc = "streaming"
    /\ ctxDone
    /\ hpc' = "returned"
    /\ UNCHANGED <<stream, streamClosed, ctxDone, sent, received, responseBody, status>>
    /\ UNCHANGED notHandler

\* case msg, ok := <-stream with !ok: return
HandleClosed ==
    /\ hpc = "streaming"
    /\ stream = <<>> /\ streamClosed
    /\ hpc' = "returned"
    /\ UNCHANGED <<stream, streamClosed, ctxDone, sent, received, responseBody, status>>
    /\ UNCHANGED notHandler

\* case msg, ok := <-stream with ok: encode, write the frames, flush
HandleMessage ==
    /\ hpc = "streaming"
    /\ stream # <<>>
    /\ LET m == Head(stream)
           enc == EncodeSSEMessages(m)
       IN  /\ stream' = Tail(stream)
           /\ received' = Append(received, m)
           /\ responseBody' = IF enc.err # "nil" THEN responseBody
                         ELSE IF Len(enc.frames) = 0 THEN responseBody
                         ELSE WriteFrames(responseBody, enc.frames)
    /\ UNCHANGED <<streamClosed, ctxDone, sent, status, hpc>>
    /\ UNCHANGED notHandler

NextHandler ==
    \/ HandlerRefuses
    \/ HandlerStreams
    \/ StreamSend
    \/ StreamClose
    \/ ClientDone
    \/ HandleDone
    \/ HandleClosed
    \/ HandleMessage

(***************************************************************************)
(* The routes of registerHTTPRoutes (cmd/http_api.go) over a service with  *)
(* one download.  core.DownloadService is modelled from section 4.7 of the *)
(* specification: update_url is only valid in paused or error, and only    *)
(* accepts a URL whose probe agrees on the size.                           *)
(***************************************************************************)
Methods == {"GET", "POST", "PUT", "DELETE"}

\* the id query parameter: absent, the download, an unknown download
IDs == {"", "id-1", "id-9"}

\* the request body of /update-url: not JSON, no url, a url
Bodies ==
    { [valid |-> FALSE, url |-> ""],
      [valid |-> TRUE, url |-> ""],
      [valid |-> TRUE, url |-> "http://mirror.example.com/file.zip"],
      [valid |-> TRUE, url |-> "http://other.example.com/file.zip"] }

NoBody == [valid |-> FALSE, url |-> ""]
NoRequest == [route |-> "", method |-> "", id |-> "", body |-> NoBody]
NoServiceCall == [op |-> "", id |-> "", url |-> ""]

AInit ==
    /\ downloadStatus = "queued"
    /\ downloadURL = "http://example.com/file.zip"
    /\ httpRequest = NoRequest
    /\ httpStatus = 0
    /\ serviceCall = NoServiceCall

\* every method is let through
requireMethodsAllowsAll(methods, r) == 0

\* requireMethods: 405 unless the method is one of those allowed; 0 is "next"
requireMethods(methods, r) == IF r.method \notin methods THEN 405 ELSE 0

\* withRequiredID: 400 if the id is empty
withRequiredID(r) == IF r.id = "" THEN 400 ELSE 0

\* the body checks of /update-url: 400 if it does not decode or has no url
RequireURL(r) == IF ~r.body.valid \/ r.body.url = "" THEN 400 ELSE 0

\* the first handler of a chain that answers
FirstRefusal(codes) ==
    IF \A i \in 1..Len(codes) : codes[i] = 0 THEN 0
    ELSE codes[CHOOSE i \in 1..Len(codes) : codes[i] # 0 /\ \A j \in 1..(i - 1) : codes[j] = 0]

\* the URL is replaced in any status
UpdateURLInAnyStatus(st, url, newURL, agrees) ==
    IF agrees THEN [err |-> FALSE, status |-> st, url |-> newURL]
    ELSE [err |-> TRUE, status |-> st, url |-> url]

\* service.UpdateURL(id, newURL) on the download
UpdateURL(st, url, newURL, agrees) ==
    IF st \in {"paused", "error"} /\ agrees
    THEN [err |-> FALSE, status |-> st, url |-> newURL]
    ELSE [err |-> TRUE, status |-> st, url |-> url]

\* what a call does to the download: an error or the new status and URL
Service(op, id, newURL, agrees) ==
    LET st == downloadStatus
        unchanged == [err |-> FALSE, status |-> st, url |-> downloadURL]
        failed == [err |-> TRUE, status |-> st, url |-> downloadURL]
    IN  CASE op \in {"List", "History"} -> unchanged
          [] id # "id-1" \/ st = "removed" -> failed
          [] op = "Pause" ->
                IF st \in {"queued", "active"} THEN [unchanged EXCEPT !.status = "paused"] ELSE failed
          [] op = "Resume" ->
                IF st \in {"paused", "error"} THEN [unchanged EXCEPT !.status = "queued"] ELSE failed
          [] op = "Delete" -> [unchanged EXCEPT !.status = "removed"]
          [] op = "UpdateURL" -> UpdateURL(st, downloadURL, newURL, agrees)

\* one request to a route: the chain of checks, then the call on the service
Serve(route, op, methods, needsID, needsURL) ==
    \E method \in Methods : \E id \in IDs :
    \E body \in (IF needsURL THEN Bodies ELSE {NoBody}) :
        LET r == [route |-> route, method |-> method, id |-> id, body |-> body]
            refused == FirstRefusal(<<requireMethods(methods, r),
                                      IF needsID THEN withRequiredID(r) ELSE 0,
                                      IF needsURL THEN RequireURL(r) ELSE 0>>)
        IN  /\ httpRequest' = r
            /\ IF refused # 0
               THEN /\ httpStatus' = refused
                    /\ serviceCall' = NoServiceCall
                    /\ UNCHANGED <<downloadStatus, downloadURL>>
               ELSE \E agrees \in BOOLEAN :
                    LET res == Service(op, id, body.url, agrees) IN
                       /\ serviceCall' = [op |-> op, id |-> IF needsID THEN id ELSE "", url |-> body.url]
                       /\ httpStatus' = IF res.err THEN 500 ELSE 200
                       /\ downloadStatus' = res.status
                       /\ downloadURL' = res.url
            /\ UNCHANGED notAPI

ServePause == Serve("/pause", "Pause", {"POST"}, TRUE, FALSE)
ServeResume == Serve("/resume", "Resume", {"POST"}, TRUE, FALSE)
ServeDelete == Serve("/delete", "Delete", {"DELETE", "POST"}, TRUE, FALSE)
ServeList == Serve("/list", "List", {"GET"}, FALSE, FALSE)
ServeHistory == Serve("/history", "History", {"GET"}, FALSE, FALSE)
ServeUpdateURL == Serve("/update-url", "UpdateURL", {"PUT"}, TRUE, TRUE)

\* the engine moves the download: it starts, completes or fails
EngineMoves ==
    /\ \/ downloadStatus = "queued" /\ downloadStatus' = "active"
       \/ downloadStatus = "active" /\ downloadStatus' \in {"completed", "error"}
    /\ UNCHANGED <<downloadURL, httpRequest, httpStatus, serviceCall>>
    /\ UNCHANGED notAPI

NextAPI ==
    \/ ServePause
    \/ ServeResume
    \/ ServeDelete
    \/ ServeList
    \/ ServeHistory
    \/ ServeUpdateURL
    \/ EngineMoves

(***************************************************************************)
(* The chunk planner, modelled from section 4.2 of the specification with  *)
(* the constants of the downloader package.                                *)
(***************************************************************************)
KB == 1024
MB == 1024 * KB
MinChunk == 2 * MB
MaxChunk == 16 * MB
TargetChunk == 8 * MB
AlignSize == 4 * KB

\* the largest size planned, in MB, besides the 100 MB of scenario S2
MaxMB == 40

\* sizes on and around the MB and alignment boundaries
TotalSizes ==
    { a * MB + d : a \in 0..MaxMB, d \in {0, 1, AlignSize - 1, AlignSize + 1, MB - 1} }
        \cup {100 * MB}

\* ceil(a / b)
CeilDiv(a, b) == (a + b - 1) \div b

\* x as it is
NotRounded(x, align) == x

\* round_down(x, align)
RoundDown(x, align) == (x \div align) * align

\* step 1: n = ceil(total_size / TARGET_CHUNK), clamped so that
\* total_size / n is in [MIN_CHUNK, MAX_CHUNK]
ChunkCount(total) ==
    Max(CeilDiv(total, MaxChunk),
        Min(CeilDiv(total, TargetChunk), total \div MinChunk))

\* steps 2 and 3: the plan
ChunkPlan(total) ==
    IF total < MinChunk
    THEN << [offset |-> 0, length |-> total] >>
    ELSE LET n == ChunkCount(total)
             base == RoundDown(total \div n, AlignSize)
         IN  [i \in 1..n |->
                 [offset |-> (i - 1) * base,
                  length |-> IF i < n THEN base ELSE total - (n - 1) * base]]

KInit ==
    /\ total_size = -1
    /\ plan = <<>>
    /\ replan = <<>>

\* the planner is called for a size
PlanChunks ==
    /\ \E total \in TotalSizes :
          /\ total_size' = total
          /\ plan' = ChunkPlan(total)
    /\ replan' = <<>>
    /\ UNCHANGED notPlanner

\* it is called again for the same size
PlanAgain ==
    /\ total_size >= 0
    /\ replan = <<>>
    /\ replan' = ChunkPlan(total_size)
    /\ UNCHANGED total_size
    /\ UNCHANGED plan
    /\ UNCHANGED notPlanner

NextPlanner ==
    \/ PlanChunks
    \/ PlanAgain

(***************************************************************************)
(* Pause and resume of the concurrent fetcher, modelled from section 4.4   *)
(* of the specification.  A worker receives bytes into its buffer and      *)
(* flushes the buffer with a positional write, after which the bytes are   *)
(* counted in chunk_progress, downloaded and verified_progress together.   *)
(* The queue is drained as TaskQueue.DrainRemaining does.                  *)
(***************************************************************************)
NumWorkers == 2
NumChunks == 2
ChunkLength == 2

Workers == 1..NumWorkers
TotalSize == NumChunks * ChunkLength
Positions == 0..(TotalSize - 1)

Task(offset, length) == [offset |-> offset, length |-> length]
NoTask == Task(0, 0)

\* the plan: chunks of one length, end to end
InitialPlan == [i \in 1..NumChunks |-> Task((i - 1) * ChunkLength, ChunkLength)]

\* the positions of a range of the file
RangeOf(offset, length) == {pos \in Positions : offset <= pos /\ pos < offset + length}

OInit ==
    /\ taskQueue = InitialPlan
    /\ inflight = [w \in Workers |-> NoTask]
    /\ fetchedOfTask = [w \in Workers |-> 0]
    /\ chunk_progress = [w \in Workers |-> 0]
    /\ workerState = [w \in Workers |-> "idle"]
    /\ pauseRequested = FALSE
    /\ phase = "active"
    /\ wasResumed = FALSE
    /\ storedTasks = <<>>
    /\ bytesDownloaded = 0
    /\ verified_progress = 0
    /\ verifiedBytes = {}
    /\ verified_at_pause = 0
    /\ fetchedAfterResume = [pos \in Positions |-> 0]

\* worker loop, step 1: pop a task
WorkerPop ==
    /\ phase = "active" /\ ~pauseRequested
    /\ taskQueue # <<>>
    /\ \E w \in Workers :
          /\ workerState[w] = "idle"
          /\ inflight' = [inflight EXCEPT ![w] = Head(taskQueue)]
          /\ fetchedOfTask' = [fetchedOfTask EXCEPT ![w] = 0]
          /\ chunk_progress' = [chunk_progress EXCEPT ![w] = 0]
          /\ workerState' = [workerState EXCEPT ![w] = "busy"]
    /\ taskQueue' = Tail(taskQueue)
    /\ UNCHANGED <<pauseRequested, phase, wasResumed, storedTasks, bytesDownloaded,
                   verified_progress, verifiedBytes, verified_at_pause, fetchedAfterResume>>
    /\ UNCHANGED notFetcher

\* worker loop, step 3: one more byte of the body arrives in the buffer
WorkerReceive ==
    /\ phase = "active"
    /\ \E w \in Workers :
          /\ workerState[w] = "busy"
          /\ fetchedOfTask[w] < inflight[w].length
          /\ fetchedOfTask' = [fetchedOfTask EXCEPT ![w] = @ + 1]
          /\ fetchedAfterResume' =
                IF wasResumed
                THEN [fetchedAfterResume EXCEPT ![inflight[w].offset + fetchedOfTask[w]] = @ + 1]
                ELSE fetchedAfterResume
    /\ UNCHANGED <<taskQueue, inflight, chunk_progress, workerState, pauseRequested, phase,
                   wasResumed, storedTasks, bytesDownloaded, verified_progress,
                   verifiedBytes, verified_at_pause>>
    /\ UNCHANGED notFetcher

\* worker loop, step 3: the buffer is written at its position and counted
WorkerFlush ==
    /\ phase = "active"
    /\ \E w \in Workers :
          /\ workerState[w] = "busy"
          /\ fetchedOfTask[w] > chunk_progress[w]
          /\ chunk_progress' = [chunk_progress EXCEPT ![w] = fetchedOfTask[w]]
          /\ bytesDownloaded' = bytesDownloaded + (fetchedOfTask[w] - chunk_progress[w])
          /\ verified_progress' = verified_progress + (fetchedOfTask[w] - chunk_progress[w])
          /\ verifiedBytes' = verifiedBytes \cup
                RangeOf(inflight[w].offset + chunk_progress[w], fetchedOfTask[w] - chunk_progress[w])
    /\ UNCHANGED <<taskQueue, inflight, fetchedOfTask, workerState, pauseRequested, phase,
                   wasResumed, storedTasks, verified_at_pause, fetchedAfterResume>>
    /\ UNCHANGED notFetcher

\* worker loop, step 4: the chunk is complete
WorkerFinish ==
    /\ phase = "active"
    /\ \E w \in Workers :
          /\ workerState[w] = "busy"
          /\ chunk_progress[w] = inflight[w].length
          /\ inflight' = [inflight EXCEPT ![w] = NoTask]
          /\ fetchedOfTask' = [fetchedOfTask EXCEPT ![w] = 0]
          /\ chunk_progress' = [chunk_progress EXCEPT ![w] = 0]
          /\ workerState' = [workerState EXCEPT ![w] = "idle"]
    /\ UNCHANGED <<taskQueue, pauseRequested, phase, wasResumed, storedTasks, bytesDownloaded,
                   verified_progress, verifiedBytes, verified_at_pause, fetchedAfterResume>>
    /\ UNCHANGED notFetcher

\* Pause: paused is set and the in-flight requests are cancelled
PauseRequest ==
    /\ phase = "active" /\ ~pauseRequested /\ ~wasResumed
    /\ pauseRequested' = TRUE
    /\ UNCHANGED <<taskQueue, inflight, fetchedOfTask, chunk_progress, workerState, phase,
                   wasResumed, storedTasks, bytesDownloaded, verified_progress,
                   verifiedBytes, verified_at_pause, fetchedAfterResume>>
    /\ UNCHANGED notFetcher

\* Pause: a worker observes the cancellation, drops the bytes it has not
\* written, and exits
WorkerObservesCancel ==
    /\ phase = "active" /\ pauseRequested
    /\ \E w \in Workers :
          /\ workerState[w] # "exited"
          /\ fetchedOfTask' = [fetchedOfTask EXCEPT ![w] = chunk_progress[w]]
          /\ workerState' = [workerState EXCEPT ![w] = "exited"]
    /\ UNCHANGED <<taskQueue, inflight, chunk_progress, pauseRequested, phase, wasResumed,
                   storedTasks, bytesDownloaded, verified_progress, verifiedBytes,
                   verified_at_pause, fetchedAfterResume>>
    /\ UNCHANGED notFetcher

\* the whole task again
WholeTask(task, counted) == task

\* what is left of a task of which some bytes are written and counted
RemainingOf(task, counted) == Task(task.offset + counted, task.length - counted)

\* the tasks left of those the workers held, in the order of the workers
RECURSIVE MidFlight(_)
MidFlight(w) ==
    IF w = 0 THEN <<>>
    ELSE MidFlight(w - 1) \o
         (IF inflight[w] # NoTask /\ chunk_progress[w] < inflight[w].length
          THEN <<RemainingOf(inflight[w], chunk_progress[w])>>
          ELSE <<>>)

\* TaskQueue.DrainRemaining: the tasks not taken, and the queue left empty
DrainRemaining(q) == [remaining |-> q, tasks |-> <<>>]

\* Pause: the workers have exited; the queue is drained, the drained tasks are
\* merged with those in flight and written to the store
PauseCompletes ==
    /\ phase = "active" /\ pauseRequested
    /\ \A w \in Workers : workerState[w] = "exited"
    /\ LET drained == DrainRemaining(taskQueue) IN
          /\ taskQueue' = drained.tasks
          /\ storedTasks' = drained.remaining \o MidFlight(NumWorkers)
    /\ verified_at_pause' = verified_progress
    /\ phase' = "paused"
    /\ UNCHANGED <<inflight, fetchedOfTask, chunk_progress, workerState, pauseRequested,
                   wasResumed, bytesDownloaded, verified_progress, verifiedBytes,
                   fetchedAfterResume>>
    /\ UNCHANGED notFetcher

\* Resume: the stored tasks are pushed into a fresh queue and workers start
ResumeDownload ==
    /\ phase = "paused"
    /\ taskQueue' = storedTasks
    /\ inflight' = [w \in Workers |-> NoTask]
    /\ fetchedOfTask' = [w \in Workers |-> 0]
    /\ chunk_progress' = [w \in Workers |-> 0]
    /\ workerState' = [w \in Workers |-> "idle"]
    /\ pauseRequested' = FALSE
    /\ wasResumed' = TRUE
    /\ phase' = "active"
    /\ UNCHANGED <<storedTasks, bytesDownloaded, verified_progress, verifiedBytes,
                   verified_at_pause, fetchedAfterResume>>
    /\ UNCHANGED notFetcher

\* Completion: the queue is drained and the workers have nothing in hand
DownloadCompletes ==
    /\ phase = "active" /\ ~pauseRequested
    /\ taskQueue = <<>>
    /\ \A w \in Workers : workerState[w] = "idle"
    /\ phase' = "completed"
    /\ UNCHANGED <<taskQueue, inflight, fetchedOfTask, chunk_progress, workerState,
                   pauseRequested, wasResumed, storedTasks, bytesDownloaded,
                   verified_progress, verifiedBytes, verified_at_pause, fetchedAfterResume>>
    /\ UNCHANGED notFetcher

NextFetcher ==
    \/ WorkerPop
    \/ WorkerReceive
    \/ WorkerFlush
    \/ WorkerFinish
    \/ PauseRequest
    \/ WorkerObservesCancel
    \/ PauseCompletes
    \/ ResumeDownload
    \/ DownloadCompletes

(***************************************************************************)
(* Keepalive and stall detection, modelled from section 4.4 of the         *)
(* specification.  A connection that is alive delivers its next byte       *)
(* before the worker has waited StallThreshold seconds for it; one that    *)
(* has stalled delivers nothing more.  A flush of the worker buffer may    *)
(* take up to MaxFlush seconds, which is not less than the threshold.      *)
(***************************************************************************)
StallThreshold == 5
MaxFlush == 5
MaxStalls == 2

Monitored == {1, 2}
Ranges == {"r1"}

RetryTask(range, attempt) == [range |-> range, attempt |-> attempt]
NoRetryTask == RetryTask("", 0)

MInit ==
    /\ retryQueue = <<RetryTask("r1", 1)>>
    /\ held = [w \in Monitored |-> NoRetryTask]
    /\ reading = [w \in Monitored |-> "idle"]
    /\ connAlive = [w \in Monitored |-> FALSE]
    /\ sinceByte = [w \in Monitored |-> 0]
    /\ flushTicks = [w \in Monitored |-> 0]
    /\ waitTicks = [w \in Monitored |-> 0]
    /\ stalls = 0
    /\ finishedRanges = {}

\* the age of the last-byte timestamp, flushing included
SecondsSinceLastByte(w) == sinceByte[w]

\* what the health monitor holds against a worker: the seconds without a
\* byte from the wire, the time spent flushing not counted
SecondsWithoutBytes(w) == sinceByte[w] - flushTicks[w]

\* a worker pops a task and opens the ranged request
TakeTask(w) ==
    /\ reading[w] = "idle"
    /\ retryQueue # <<>>
    /\ held' = [held EXCEPT ![w] = Head(retryQueue)]
    /\ retryQueue' = Tail(retryQueue)
    /\ reading' = [reading EXCEPT ![w] = "reading"]
    /\ connAlive' = [connAlive EXCEPT ![w] = TRUE]
    /\ sinceByte' = [sinceByte EXCEPT ![w] = 0]
    /\ flushTicks' = [flushTicks EXCEPT ![w] = 0]
    /\ waitTicks' = [waitTicks EXCEPT ![w] = 0]
    /\ UNCHANGED <<stalls, finishedRanges>>
    /\ UNCHANGED notMonitor

\* a read succeeds: the timestamp is renewed, and the buffer, now full, is flushed
ReadBytes(w) ==
    /\ reading[w] = "reading"
    /\ connAlive[w]
    /\ sinceByte' = [sinceByte EXCEPT ![w] = 0]
    /\ flushTicks' = [flushTicks EXCEPT ![w] = 0]
    /\ waitTicks' = [waitTicks EXCEPT ![w] = 0]
    /\ reading' = [reading EXCEPT ![w] = "flushing"]
    /\ UNCHANGED <<retryQueue, held, connAlive, stalls, finishedRanges>>
    /\ UNCHANGED notMonitor

\* the flush ends: the worker reads on, or its range is complete
FlushEnds(w) ==
    /\ reading[w] = "flushing"
    /\ \/ /\ reading' = [reading EXCEPT ![w] = "reading"]
          /\ UNCHANGED <<held, finishedRanges>>
       \/ /\ reading' = [reading EXCEPT ![w] = "idle"]
          /\ finishedRanges' = finishedRanges \cup {held[w].range}
          /\ held' = [held EXCEPT ![w] = NoRetryTask]
    /\ UNCHANGED <<retryQueue, connAlive, sinceByte, flushTicks, waitTicks, stalls>>
    /\ UNCHANGED notMonitor

\* a connection stops delivering bytes while the response body is still open
ConnectionStalls(w) ==
    /\ reading[w] # "idle"
    /\ connAlive[w]
    /\ stalls < MaxStalls
    /\ connAlive' = [connAlive EXCEPT ![w] = FALSE]
    /\ stalls' = stalls + 1
    /\ UNCHANGED <<retryQueue, held, reading, sinceByte, flushTicks, waitTicks, finishedRanges>>
    /\ UNCHANGED notMonitor

\* a second passes
Tick ==
    /\ \E w \in Monitored : reading[w] # "idle"
    /\ \A w \in Monitored :
          /\ (reading[w] = "reading" /\ connAlive[w]) => waitTicks[w] < StallThreshold - 1
          /\ (reading[w] = "reading" /\ ~connAlive[w]) => waitTicks[w] < StallThreshold + 1
          /\ reading[w] = "flushing" => flushTicks[w] < MaxFlush
    /\ sinceByte' = [w \in Monitored |-> IF reading[w] # "idle" THEN sinceByte[w] + 1 ELSE sinceByte[w]]
    /\ flushTicks' = [w \in Monitored |-> IF reading[w] = "flushing" THEN flushTicks[w] + 1 ELSE flushTicks[w]]
    /\ waitTicks' = [w \in Monitored |-> IF reading[w] = "reading" THEN waitTicks[w] + 1 ELSE waitTicks[w]]
    /\ UNCHANGED <<retryQueue, held, reading, connAlive, stalls, finishedRanges>>
    /\ UNCHANGED notMonitor

\* the health monitor finds a worker stalled: the worker is aborted and its
\* task goes back to the queue with attempt+1
MonitorAborts(w) ==
    /\ reading[w] # "idle"
    /\ SecondsWithoutBytes(w) >= StallThreshold
    /\ retryQueue' = Append(retryQueue, RetryTask(held[w].range, held[w].attempt + 1))
    /\ held' = [held EXCEPT ![w] = NoRetryTask]
    /\ reading' = [reading EXCEPT ![w] = "idle"]
    /\ UNCHANGED <<connAlive, sinceByte, flushTicks, waitTicks, stalls, finishedRanges>>
    /\ UNCHANGED notMonitor

WorkerTakes == \E w \in Monitored : TakeTask(w)
WorkerReads == \E w \in Monitored : ReadBytes(w)
WorkerFlushed == \E w \in Monitored : FlushEnds(w)
NetworkStalls == \E w \in Monitored : ConnectionStalls(w)
HealthMonitor == \E w \in Monitored : MonitorAborts(w)

NextMonitor ==
    \/ WorkerTakes
    \/ WorkerReads
    \/ WorkerFlushed
    \/ NetworkStalls
    \/ Tick
    \/ HealthMonitor

(***************************************************************************)
(* The worker loop on failure (specification 4.4, step 5, and "Mirror      *)
(* failover"): retry the same task with attempt+1 up to 5 attempts, then   *)
(* the next mirror, then surface the failure. Its code is not among the    *)
(* sources; a retried task re-enters the queue through TaskQueue.Push.     *)
(***************************************************************************)
\* chunks of the plan the retrying workers are given
NumTasks == 2
\* mirrors whose probe agreed on the size
NumMirrors == 1

\* "up to 5 attempts"
MaxAttempts == 5

\* 0 is the primary URL, 1 .. NumMirrors the mirrors in the order they are picked
Sources == 0 .. NumMirrors

RetriedTask(c, a, s) == [chunk |-> c, attempt |-> a, source |-> s]

NoAttempt == RetriedTask(0, 0, 0)

\* the queue is pre-loaded with the plan: every chunk once, first attempt, primary
WInit ==
    /\ workQueue = [c \in 1 .. NumTasks |-> RetriedTask(c, 1, 0)]
    /\ current = NoAttempt
    /\ lastFailure = "none"
    /\ completed = {}
    /\ surfaced = FALSE
    /\ attemptsMade = [c \in 1 .. NumTasks |-> [s \in Sources |-> 0]]

\* a retried task keeps its attempt number
RetriedSameAttempt(task) == task

\* "a retried task re-enters the queue with attempt+1"
Retried(task) == [task EXCEPT !.attempt = task.attempt + 1]

\* "the fetcher picks the next mirror ... the same byte range is retried on
\* the mirror"
OnNextMirror(task) == RetriedTask(task.chunk, 1, task.source + 1)

\* steps 1 and 2: pop a task and open the ranged GET on its source
PopAndFetch ==
    /\ ~surfaced
    /\ current = NoAttempt
    /\ workQueue # <<>>
    /\ current' = Head(workQueue)
    /\ workQueue' = Tail(workQueue)
    /\ attemptsMade' = [attemptsMade EXCEPT ![Head(workQueue).chunk][Head(workQueue).source] = @ + 1]
    /\ UNCHANGED <<lastFailure, completed, surfaced>>
    /\ UNCHANGED notRetry

\* steps 3 and 4: the chunk is fetched
FetchSucceeds ==
    /\ current # NoAttempt
    /\ completed' = completed \cup {current.chunk}
    /\ current' = NoAttempt
    /\ lastFailure' = "none"
    /\ UNCHANGED <<workQueue, surfaced, attemptsMade>>
    /\ UNCHANGED notRetry

\* step 5, transient network failure: retry, switch to a mirror, or surface
FetchFailsTransient ==
    /\ current # NoAttempt
    /\ lastFailure' = "transient"
    /\ IF current.attempt < MaxAttempts
          THEN workQueue' = Append(workQueue, Retried(current)) /\ UNCHANGED surfaced
          ELSE IF current.source < NumMirrors
                  THEN workQueue' = Append(workQueue, OnNextMirror(current)) /\ UNCHANGED surfaced
                  ELSE surfaced' = TRUE /\ UNCHANGED workQueue
    /\ current' = NoAttempt
    /\ UNCHANGED <<completed, attemptsMade>>
    /\ UNCHANGED notRetry

\* step 5, authorization / not found / disk: surfaced immediately, no retry
FetchFailsFatal ==
    /\ current # NoAttempt
    /\ lastFailure' = "fatal"
    /\ surfaced' = TRUE
    /\ current' = NoAttempt
    /\ UNCHANGED <<workQueue, completed, attemptsMade>>
    /\ UNCHANGED notRetry

NextRetry ==
    \/ PopAndFetch
    \/ FetchSucceeds
    \/ FetchFailsTransient
    \/ FetchFailsFatal

(***************************************************************************)
(* runHeadless (src/cmd/get.go:25-69): the goroutine that runs             *)
(* downloader.Download, and the loop over eventCh. What Download sends and *)
(* returns is the environment's choice.                                    *)
(***************************************************************************)
\* progressChannelBuffer (get.go:22), scaled down to the messages of the model
progressChannelBuffer == 2
\* messages one Download sends
MaxEvents == 3

MsgKinds == {"started", "progress", "complete", "error"}

Errs == {"nil", "failed", "cancelled"}

EventMsgs == [kind : MsgKinds \ {"error"}, err : {"nil"}] \cup [kind : {"error"}, err : Errs]

\* 26-38: both channels are made and the goroutine started
GInit ==
    /\ eventCh = <<>>
    /\ eventChClosed = FALSE
    /\ errCh = <<>>
    /\ gpc = "downloading"
    /\ lpc = "ranging"
    /\ downloadErr = "nil"
    /\ headlessRet = "nil"
    /\ seen = <<>>
    /\ emitted = 0

\* 35: Download sends a message on eventCh; the send blocks while the buffer
\* is full
DownloadSends ==
    /\ gpc = "downloading"
    /\ emitted < MaxEvents
    /\ Len(eventCh) < progressChannelBuffer
    /\ \E m \in EventMsgs : eventCh' = Append(eventCh, m)
    /\ emitted' = emitted + 1
    /\ UNCHANGED <<eventChClosed, errCh, gpc, lpc, downloadErr, headlessRet, seen>>
    /\ UNCHANGED notHeadless

\* 35: Download returns
DownloadReturns ==
    /\ gpc = "downloading"
    /\ \E e \in Errs : downloadErr' = e
    /\ gpc' = "sendErr"
    /\ UNCHANGED <<eventCh, eventChClosed, errCh, lpc, headlessRet, seen, emitted>>
    /\ UNCHANGED notHeadless

\* errCh made without a buffer: the send waits for the receive at 68
SendErrUnbuffered ==
    /\ gpc = "sendErr"
    /\ lpc = "recvErr"
    /\ headlessRet' = downloadErr
    /\ lpc' = "returned"
    /\ gpc' = "closeCh"
    /\ UNCHANGED <<eventCh, eventChClosed, errCh, downloadErr, seen, emitted>>
    /\ UNCHANGED notHeadless

\* 36: errCh <- err, into the buffer of 1 made at 33
SendErr ==
    /\ gpc = "sendErr"
    /\ Len(errCh) < 1
    /\ errCh' = Append(errCh, downloadErr)
    /\ gpc' = "closeCh"
    /\ UNCHANGED <<eventCh, eventChClosed, lpc, downloadErr, headlessRet, seen, emitted>>
    /\ UNCHANGED notHeadless

\* 37: close(eventCh)
CloseEventCh ==
    /\ gpc = "closeCh"
    /\ eventChClosed' = TRUE
    /\ gpc' = "exited"
    /\ UNCHANGED <<eventCh, errCh, lpc, downloadErr, headlessRet, seen, emitted>>
    /\ UNCHANGED notHeadless

\* 41-65: the loop receives a message; a DownloadErrorMsg makes runHeadless
\* return its Err
LoopReceives ==
    /\ lpc = "ranging"
    /\ eventCh # <<>>
    /\ eventCh' = Tail(eventCh)
    /\ seen' = Append(seen, Head(eventCh))
    /\ IF Head(eventCh).kind = "error"
          THEN headlessRet' = Head(eventCh).err /\ lpc' = "returned"
          ELSE UNCHANGED <<headlessRet, lpc>>
    /\ UNCHANGED <<eventChClosed, errCh, gpc, downloadErr, emitted>>
    /\ UNCHANGED notHeadless

\* 41, 66: the range loop ends once eventCh is closed and empty
LoopEnds ==
    /\ lpc = "ranging"
    /\ eventCh = <<>>
    /\ eventChClosed
    /\ lpc' = "recvErr"
    /\ UNCHANGED <<eventCh, eventChClosed, errCh, gpc, downloadErr, headlessRet, seen, emitted>>
    /\ UNCHANGED notHeadless

\* 68: return <-errCh
ReceiveErr ==
    /\ lpc = "recvErr"
    /\ errCh # <<>>
    /\ headlessRet' = Head(errCh)
    /\ errCh' = Tail(errCh)
    /\ lpc' = "returned"
    /\ UNCHANGED <<eventCh, eventChClosed, gpc, downloadErr, seen, emitted>>
    /\ UNCHANGED notHeadless

NextHeadless ==
    \/ DownloadSends
    \/ DownloadReturns
    \/ SendErr
    \/ CloseEventCh
    \/ LoopReceives
    \/ LoopEnds
    \/ ReceiveErr

(***************************************************************************)
(* RootModel.Update (src/unnamed/part_002): start requests, the duplicate  *)
(* warning and the deletion of downloads. The keys of the input form are   *)
(* folded into the enter on its last input: the values typed are chosen    *)
(* there.                                                                  *)
(***************************************************************************)
\* downloads ever added to the list
MaxDownloads == 3

\* what a request or the form can carry
RequestURLs == {"a", "b"}
RequestPaths == {"", "dir"}
RequestFilenames == {"name"}

\* NewDownloadModel(nextID, url, "Queued", 0)
NewDownloadModel(id, url) == [ID |-> id, URL |-> url, Filename |-> "Queued"]

DownloadConfig(url, path, id, filename) ==
    [URL |-> url, OutputPath |-> path, ID |-> id, Filename |-> filename]

\* the initial model is not among the sources: no download, IDs from 1
UInit ==
    /\ uiState = "Dashboard"
    /\ downloads = <<>>
    /\ NextDownloadID = 1
    /\ pendingURL = ""
    /\ pendingPath = ""
    /\ pendingFilename = ""
    /\ duplicateInfo = ""
    /\ poolAdds = 0
    /\ lastCfg = DownloadConfig("", "", 0, "")
    /\ assignedIDs = {}

\* 25-27, 363-365
PathOrDot(path) == IF path = "" THEN "." ELSE path

\* the index of the first download the loops at 30, 65, 294 and 369 stop at
FirstIndex(matching) == CHOOSE i \in matching : \A j \in matching : i <= j

\* the indices of the downloads with this URL, with this ID
WithURL(url) == {i \in 1 .. Len(downloads) : downloads[i].URL = url}
WithID(id) == {i \in 1 .. Len(downloads) : downloads[i].ID = id}

\* the duplicate check looking at the last download only
IsDuplicateOfLast(url) == downloads # <<>> /\ downloads[Len(downloads)].URL = url

\* 30-31, 369-370: some download of the list has this URL
IsDuplicate(url) == WithURL(url) # {}

\* 32-36, 371-375
WarnDuplicate(url, path, filename) ==
    /\ pendingURL' = url
    /\ pendingPath' = path
    /\ pendingFilename' = filename
    /\ duplicateInfo' = downloads[FirstIndex(WithURL(url))].Filename
    /\ uiState' = "DuplicateWarning"
    /\ UNCHANGED <<downloads, NextDownloadID, poolAdds, lastCfg, assignedIDs>>

\* the ID taken from the length of the list
NewIDFromLength == Len(downloads) + 1

\* 41, 383, 491: nextID := m.NextDownloadID
NewID == NextDownloadID

\* 41-57, 383-399, 491-505
AddDownload(url, path, filename) ==
    /\ NextDownloadID <= MaxDownloads
    /\ NextDownloadID' = NextDownloadID + 1
    /\ downloads' = Append(downloads, NewDownloadModel(NewID, url))
    /\ poolAdds' = poolAdds + 1
    /\ lastCfg' = DownloadConfig(url, path, NewID, filename)
    /\ assignedIDs' = assignedIDs \cup {NewID}

\* 22-61: a start request from the HTTP server, in whatever state the TUI is
StartDownloadMsg(url, path, filename) ==
    /\ IF IsDuplicate(url)
          THEN WarnDuplicate(url, PathOrDot(path), filename)
          ELSE /\ AddDownload(url, PathOrDot(path), filename)
               /\ UNCHANGED <<uiState, pendingURL, pendingPath, pendingFilename, duplicateInfo>>
    /\ UNCHANGED notTUI

\* 226-236: 'g' opens the input form
OpenInput ==
    /\ uiState = "Dashboard"
    /\ uiState' = "Input"
    /\ UNCHANGED <<downloads, NextDownloadID, pendingURL, pendingPath, pendingFilename,
                   duplicateInfo, poolAdds, lastCfg, assignedIDs>>
    /\ UNCHANGED notTUI

\* 333-336
InputEsc ==
    /\ uiState = "Input"
    /\ uiState' = "Dashboard"
    /\ UNCHANGED <<downloads, NextDownloadID, pendingURL, pendingPath, pendingFilename,
                   duplicateInfo, poolAdds, lastCfg, assignedIDs>>
    /\ UNCHANGED notTUI

\* 352-402: enter on the last input; the config made at 389-396 has no Filename
InputEnter(url, path, filename) ==
    /\ uiState = "Input"
    /\ IF url = ""
          THEN UNCHANGED uvars
          ELSE IF IsDuplicate(url)
                  THEN WarnDuplicate(url, PathOrDot(path), filename)
                  ELSE /\ AddDownload(url, PathOrDot(path), "")
                       /\ uiState' = "Dashboard"
                       /\ UNCHANGED <<pendingURL, pendingPath, pendingFilename, duplicateInfo>>
    /\ UNCHANGED notTUI

\* 489-509: 'c' adds the pending download
DuplicateContinue ==
    /\ uiState = "DuplicateWarning"
    /\ AddDownload(pendingURL, pendingPath, pendingFilename)
    /\ uiState' = "Dashboard"
    /\ UNCHANGED <<pendingURL, pendingPath, pendingFilename, duplicateInfo>>
    /\ UNCHANGED notTUI

\* 510-514: 'x' or esc
DuplicateCancel ==
    /\ uiState = "DuplicateWarning"
    /\ uiState' = "Dashboard"
    /\ UNCHANGED <<downloads, NextDownloadID, pendingURL, pendingPath, pendingFilename,
                   duplicateInfo, poolAdds, lastCfg, assignedIDs>>
    /\ UNCHANGED notTUI

\* 283-318: 'd' or 'x' on the dashboard removes the selected download
DeleteDownload(targetID) ==
    /\ uiState = "Dashboard"
    /\ LET realIdx == FirstIndex(WithID(targetID)) IN
          downloads' = SubSeq(downloads, 1, realIdx - 1)
                          \o SubSeq(downloads, realIdx + 1, Len(downloads))
    /\ UNCHANGED <<uiState, NextDownloadID, pendingURL, pendingPath, pendingFilename,
                   duplicateInfo, poolAdds, lastCfg, assignedIDs>>
    /\ UNCHANGED notTUI

\* 63-79: the download reports its real URL and filename
DownloadStartedMsg(id, url) ==
    /\ downloads' = [downloads EXCEPT ![FirstIndex(WithID(id))] =
                         [ID |-> id, URL |-> url, Filename |-> "name"]]
    /\ UNCHANGED <<uiState, NextDownloadID, pendingURL, pendingPath, pendingFilename,
                   duplicateInfo, poolAdds, lastCfg, assignedIDs>>
    /\ UNCHANGED notTUI

ListedIDs == {downloads[i].ID : i \in 1 .. Len(downloads)}

ServerRequests ==
    \E url \in RequestURLs, path \in RequestPaths, filename \in RequestFilenames :
        StartDownloadMsg(url, path, filename)

FormEnter ==
    \E url \in RequestURLs \cup {""}, path \in RequestPaths, filename \in RequestFilenames :
        InputEnter(url, path, filename)

DeleteSelected == \E id \in ListedIDs : DeleteDownload(id)

DownloadStarts == \E id \in ListedIDs, url \in RequestURLs : DownloadStartedMsg(id, url)

NextTUI ==
    \/ ServerRequests
    \/ OpenInput
    \/ InputEsc
    \/ FormEnter
    \/ DuplicateContinue
    \/ DuplicateCancel
    \/ DeleteSelected
    \/ DownloadStarts

(***************************************************************************)
(* RootModel.Update (src/unnamed/part_002): the history view. The store    *)
(* behind it follows section 4.6 of the specification: one entry per URL   *)
(* hash, removed by hash, loaded in a stable order.                        *)
(***************************************************************************)
\* URL hashes of the downloads that can complete
MaxHistory == 3

HistoryHashes == 1 .. MaxHistory

\* the initial model and an empty store
YInit ==
    /\ viewState = "Dashboard"
    /\ historyEntries = <<>>
    /\ historyCursor = 0
    /\ masterList = <<>>
    /\ removedLast = {}

HasHash(list, hash) == \E i \in 1 .. Len(list) : list[i] = hash

\* add_to_history: upsert on the URL hash
AddToMasterList(list, hash) == IF HasHash(list, hash) THEN list ELSE Append(list, hash)

\* remove_from_history(hash)
RemoveFromMasterList(list, hash) ==
    LET Kept(h) == h # hash IN SelectSeq(list, Kept)

\* load_completed
LoadCompletedDownloads == masterList

\* the cursor left where it was after a delete
CursorAfterDeleteKept(cursor, length) == cursor

\* 480-482: if m.historyCursor >= len(m.historyEntries) && m.historyCursor > 0
CursorAfterDelete(cursor, length) ==
    IF cursor >= length /\ cursor > 0 THEN cursor - 1 ELSE cursor

\* 117-138: a download completes and is persisted to the history
DownloadCompleteMsg(hash) ==
    /\ masterList' = AddToMasterList(masterList, hash)
    /\ UNCHANGED <<viewState, historyEntries, historyCursor, removedLast>>
    /\ UNCHANGED notHistory

\* 243-251: 'h' on the dashboard opens the history view
OpenHistory ==
    /\ viewState = "Dashboard"
    /\ historyEntries' = LoadCompletedDownloads
    /\ historyCursor' = 0
    /\ viewState' = "History"
    /\ UNCHANGED <<masterList, removedLast>>
    /\ UNCHANGED notHistory

\* 459-462: esc or 'q'
HistoryEsc ==
    /\ viewState = "History"
    /\ viewState' = "Dashboard"
    /\ UNCHANGED <<historyEntries, historyCursor, masterList, removedLast>>
    /\ UNCHANGED notHistory

\* 463-468: up or 'k'
HistoryUp ==
    /\ viewState = "History"
    /\ historyCursor' = IF historyCursor > 0 THEN historyCursor - 1 ELSE historyCursor
    /\ UNCHANGED <<viewState, historyEntries, masterList, removedLast>>
    /\ UNCHANGED notHistory

\* 469-474: down or 'j'
HistoryDown ==
    /\ viewState = "History"
    /\ historyCursor' = IF historyCursor < Len(historyEntries) - 1
                           THEN historyCursor + 1
                           ELSE historyCursor
    /\ UNCHANGED <<viewState, historyEntries, masterList, removedLast>>
    /\ UNCHANGED notHistory

\* 475-485: 'd' or 'x'; the slice is indexed from 0, the sequence from 1. The
\* error RemoveFromMasterList returns is dropped at 478: the removal may fail.
HistoryDelete(removeOK) ==
    /\ viewState = "History"
    /\ IF historyCursor >= 0 /\ historyCursor < Len(historyEntries)
          THEN LET selected == historyEntries[historyCursor + 1]
                   stored == IF removeOK
                                THEN RemoveFromMasterList(masterList, selected)
                                ELSE masterList IN
                  /\ masterList' = stored
                  /\ historyEntries' = stored
                  /\ historyCursor' = CursorAfterDelete(historyCursor, Len(stored))
                  /\ removedLast' = {selected}
          ELSE UNCHANGED <<historyEntries, historyCursor, masterList, removedLast>>
    /\ UNCHANGED viewState
    /\ UNCHANGED notHistory

CompletionPersisted == \E hash \in HistoryHashes : DownloadCompleteMsg(hash)

HistoryDeletes == \E removeOK \in BOOLEAN : HistoryDelete(removeOK)

NextHistory ==
    \/ CompletionPersisted
    \/ OpenHistory
    \/ HistoryEsc
    \/ HistoryUp
    \/ HistoryDown
    \/ HistoryDeletes

Init == QInit /\ DInit /\ RInit /\ TInit /\ SInit /\ PInit /\ EInit /\ HInit /\ AInit /\ KInit /\ OInit /\ MInit /\ WInit /\ GInit /\ UInit /\ YInit

SpecQueue == Init /\ [][NextQueue]_vars

SpecSingle == Init /\ [][NextSingle]_vars

SpecRedirect == Init /\ [][NextRedirect]_vars

SpecTransport == Init /\ [][NextTransport]_vars

SpecStore == Init /\ [][NextStore]_vars

SpecStoreOfDownloads == Init /\ [][NextStoreOfDownloads]_vars

SpecPaths == Init /\ [][NextPaths]_vars

SpecCodec == Init /\ [][NextCodec]_vars

SpecHandler == Init /\ [][NextHandler]_vars

SpecAPI == Init /\ [][NextAPI]_vars

SpecPlanner == Init /\ [][NextPlanner]_vars

SpecFetcher == Init /\ [][NextFetcher]_vars

SpecMonitor == Init /\ [][NextMonitor]_vars

SpecRetry == Init /\ [][NextRetry]_vars

SpecHeadless == Init /\ [][NextHeadless]_vars

SpecTUI == Init /\ [][NextTUI]_vars

SpecHistory == Init /\ [][NextHistory]_vars

\* Scheduling: a goroutine inside an operation keeps running, and a goroutine
\* that wants q.mu gets it once it is free often enough (sync.Mutex hands the
\* lock to a starving waiter). Nobody is obliged to call an operation.
FairSpecQueue == SpecQueue /\ \A p \in Procs : SF_vars(QStep(p))

\* Scheduling: time passes, a worker that can take a step takes it, a flush
\* ends, and the monitor keeps polling. Nothing obliges a connection to stall.
FairSpecMonitor ==
    /\ SpecMonitor
    /\ WF_vars(Tick)
    /\ WF_vars(HealthMonitor)
    /\ \A w \in Monitored :
          WF_vars(TakeTask(w)) /\ WF_vars(ReadBytes(w)) /\ SF_vars(FlushEnds(w) /\ reading'[w] = "idle")

\* Scheduling: both goroutines of runHeadless keep running. Nothing obliges
\* Download to send a message or to return.
FairSpecHeadless ==
    /\ SpecHeadless
    /\ WF_vars(SendErr)
    /\ WF_vars(CloseEventCh)
    /\ WF_vars(LoopReceives)
    /\ WF_vars(LoopEnds)
    /\ WF_vars(ReceiveErr)

(***************************************************************************)
(* What the history says.                                                  *)
(***************************************************************************)
\* the tasks taken out of the queue, in the order they left
RemovedTasks == [i \in 1 .. Len(removed) |-> removed[i].task]

\* no task has left through DrainRemaining
NoDrain == \A i \in 1 .. Len(removed) : removed[i].by = "Pop"

PopPcs == {"PopIdleInc", "PopWaitingInc", "PopParked", "PopRelock",
           "PopIdleDec", "PopTake", "PopSize", "PopUnlock"}

\* the Pop calls in progress
PopInProgress == Cardinality({p \in Procs : pc[p] \in PopPcs})

(***************************************************************************)
(* C1. FIFO: as long as no task has been drained, the tasks Pop has        *)
(* returned, in the order of the Pops, followed by the pending tasks, are  *)
(* exactly the tasks handed to Push and PushMultiple, in the order of the  *)
(* appends and, within one PushMultiple, in slice order.                   *)
(***************************************************************************)
C1_Fifo == NoDrain => RemovedTasks \o Pending = appended

C1_Witness ==
    /\ NoDrain
    /\ Len(removed) = MaxTasks
    /\ \E p \in Procs : pc[p] = "PopUnlock" /\ popRet[p] = TaskResult(MaxTasks)

(***************************************************************************)
(* C2. Pop blocks only while the queue is empty and not closed, and does   *)
(* not return while it is: it parks only with no task pending and done     *)
(* unset, it goes on to its return only when a task is pending or done is  *)
(* set, a (task, true) result is the task at the front of the pending      *)
(* tasks, which leaves the queue, and the closed result (zero task, false) *)
(* is produced, and returned, only with done set and no task pending.      *)
(***************************************************************************)
C2_PopStep(p) ==
    /\ (pc[p] # "PopParked" /\ pc'[p] = "PopParked") => (Pending = <<>> /\ ~done)
    /\ (pc[p] # "PopTake" /\ pc'[p] = "PopTake") => (Pending # <<>> \/ done)
    /\ (pc[p] = "PopTake" /\ pc'[p] # "PopTake") =>
          IF popRet'[p].ok
             THEN /\ Pending # <<>>
                  /\ popRet'[p].task = Head(Pending)
                  /\ Pending' = Tail(Pending)
             ELSE /\ popRet'[p] = ClosedResult
                  /\ done
                  /\ Pending = <<>>
                  /\ pc'[p] = "PopUnlock"

C2_PopReturn(p) ==
    pc[p] = "PopUnlock" =>
        IF popRet[p].ok
           THEN \E i \in 1 .. Len(removed) :
                   removed[i] = [task |-> popRet[p].task, by |-> "Pop"]
           ELSE popRet[p] = ClosedResult /\ done /\ Pending = <<>>

C2_PopContract ==
    /\ [](\A p \in Procs : C2_PopReturn(p))
    /\ [][\A p \in Procs : C2_PopStep(p)]_vars

\* a Pop that parked returns a task, while another Pop returns closed
C2_Witness ==
    \E p, q \in Procs :
        /\ pc[p] = "PopUnlock" /\ popRet[p].ok /\ slept[p]
        /\ pc[q] = "PopParked" /\ ~done

(***************************************************************************)
(* C3, as claimed. Once Close has set done, every worker parked in Pop     *)
(* eventually returns, and a Pop call that was blocked when done was set   *)
(* (it has parked, and finds done set when cond.Wait returns) returns the  *)
(* closed result; once done is set no Pop parks.                           *)
(***************************************************************************)
C3_BlockedReturnsClosedStep(p) ==
    /\ (done /\ slept[p] /\ pc[p] = "PopTake" /\ pc'[p] # "PopTake") =>
          popRet'[p] = ClosedResult
    /\ (done' /\ pc'[p] = "PopParked") => pc[p] = "PopParked"

C3_AfterCloseStep(p) ==
    /\ (done /\ pc[p] = "PopTake" /\ Pending = <<>> /\ pc'[p] # "PopTake") =>
          (pc'[p] = "PopUnlock" /\ popRet'[p] = ClosedResult)
    /\ (done /\ pc[p] = "PopTake" /\ Pending # <<>> /\ pc'[p] # "PopTake") =>
          popRet'[p] = TaskResult(Head(Pending))
    /\ (done' /\ pc'[p] = "PopParked") => pc[p] = "PopParked"

DrainPcs == {"DrainRemainingStore", "DrainRemainingUnlock"}

C4_DrainStep(p) ==
    (pc[p] = "idle" /\ pc'[p] \in DrainPcs) =>
        /\ drainRet'[p] = Pending
        /\ Pending' = <<>>
        /\ removed' = removed \o Drained(Pending)
        /\ done' = done
        /\ notify' = notify
        /\ \A q \in Procs \ {p} : pc'[q] = pc[q]

C4_Drained ==
    /\ \A p \in Procs : pc[p] = "DrainRemainingUnlock" => (Pending = <<>> /\ QLen = 0)
    /\ \A i, j \in 1 .. Len(removed) : removed[i].task = removed[j].task => i = j
    /\ RemovedTasks \o Pending = appended

C4_DrainRemaining ==
    /\ []C4_Drained
    /\ [][\A p \in Procs : C4_DrainStep(p)]_vars

\* a drain took a task while a worker stayed parked, after a Pop had taken one
C4_Witness ==
    \E p \in Procs :
        /\ pc[p] = "DrainRemainingUnlock"
        /\ drainRet[p] # <<>>
        /\ notify # {}
        /\ ~done
        /\ \E i \in 1 .. Len(removed) : removed[i].by = "Pop"

(***************************************************************************)
(* C5. Push and PushMultiple of k tasks call cond.Signal at most           *)
(* min(k, waiting) times, not at all when waiting is 0, and so wake at     *)
(* most that many goroutines; only Close calls cond.Broadcast.             *)
(***************************************************************************)
C5_Signals ==
    /\ \A p \in Procs :
          /\ pc[p] = "PushUnlock" => sig[p] <= Min(1, waiting)
          /\ pc[p] = "PushMultipleUnlock" => sig[p] <= Min(Len(arg[p]), waiting)
          /\ bcast[p] => pc[p] = "CloseUnlock"
          /\ sig[p] > 0 => pc[p] \in {"PushUnlock", "PushMultipleUnlock"}

C5_SignalStep(p) ==
    /\ (pc[p] = "PushSignal" /\ pc'[p] # "PushSignal") =>
          Cardinality(notify \ notify') <= Min(1, waiting)
    /\ (pc[p] = "PushMultipleSignal" /\ pc'[p] # "PushMultipleSignal") =>
          Cardinality(notify \ notify') <= Min(Len(arg[p]), waiting)

C5_WakeOnePerTask ==
    /\ []C5_Signals
    /\ [][\A p \in Procs : C5_SignalStep(p)]_vars

\* two tasks pushed with one worker waiting: one signal
C5_Witness ==
    \E p \in Procs :
        /\ pc[p] = "PushMultipleUnlock"
        /\ Len(arg[p]) = 2
        /\ waiting = 1
        /\ sig[p] = 1

(***************************************************************************)
(* C6. Whenever q.mu is not held, Len() is the number of pending tasks:    *)
(* size = len(tasks) - head = tasks appended minus tasks popped minus      *)
(* tasks drained.  Len() is never negative.                                *)
(***************************************************************************)
C6_Len ==
    /\ QLen >= 0
    /\ mu = NoProc =>
          /\ QLen = Len(tasks) - head
          /\ QLen = Len(appended) - Len(removed)

\* pending tasks are left after a Pop and a drain
C6_Witness ==
    /\ mu = NoProc
    /\ QLen > 0
    /\ \E i, j \in 1 .. Len(removed) :
          removed[i].by = "Pop" /\ removed[j].by = "DrainRemaining"

(***************************************************************************)
(* C7, as claimed. IdleWorkers() is never negative, never more than the    *)
(* number of Pop calls in progress, always equal to the waiting counter,   *)
(* and 0 when no Pop call is in progress.                                  *)
(***************************************************************************)
C7_IdleEqualsWaitingAlways ==
    /\ IdleWorkers >= 0
    /\ IdleWorkers <= PopInProgress
    /\ IdleWorkers = waiting
    /\ PopInProgress = 0 => IdleWorkers = 0

(***************************************************************************)
(* C7, amended. IdleWorkers() is never negative, never more than the       *)
(* number of Pop calls in progress, and 0 when no Pop call is in progress. *)
(* It equals the waiting counter whenever q.mu is not held; while a Pop    *)
(* is between the two paired updates (lines 53-54, 56-57) it is one more   *)
(* than the waiting counter.                                               *)
(***************************************************************************)
BetweenCounterUpdates == {p \in Procs : pc[p] \in {"PopWaitingInc", "PopIdleDec"}}

C7_IdleWorkers ==
    /\ IdleWorkers >= 0
    /\ IdleWorkers <= PopInProgress
    /\ PopInProgress = 0 => IdleWorkers = 0
    /\ mu = NoProc => IdleWorkers = waiting
    /\ IdleWorkers = waiting + Cardinality(BetweenCounterUpdates)
    /\ Cardinality(BetweenCounterUpdates) <= 1

\* two workers idle, a third between its two counter updates
C7_Witness ==
    /\ waiting = 2
    /\ IdleWorkers = 3
    /\ \E p \in Procs : pc[p] = "PopIdleDec"

(***************************************************************************)
(* C8. When Download returns nil, the calls it made on the working file    *)
(* after the copy are, in this order, Truncate (made if and only if the    *)
(* file was preallocated and written differs from fileSize), Sync, Close   *)
(* and Rename; the file at destPath is the download, as long as what was   *)
(* written, outFile is closed and no working file is left.  (When Rename   *)
(* fails, the copy to destPath and the removal of the working file follow  *)
(* it.)                                                                    *)
(***************************************************************************)
IsProtocolOp(op) == op \in {"Truncate", "Sync", "Close", "Rename"}

C9_FailureRemovesWorkingFile ==
    (dpc = "Returned" /\ retErr # "nil" /\ created) => ~workingExists

(***************************************************************************)
(* C10. On every follow-up request of a redirect chain, every header the   *)
(* original request carried is set to its original value; so when the      *)
(* original request carries Range: bytes=0-0 and the chain ends at the     *)
(* server that answers 206 to that header, the final status is 206 and the *)
(* probe reports range support.                                            *)
(***************************************************************************)
\* the probe's reading of the final status
SupportsRange == rStatus = 206

C10_HeadersForwarded ==
    /\ (rpc \in {"sent", "redirected", "done"} /\ via > 0 /\ rErr = "nil") =>
          \A k \in HeaderKeys : origHeader[k] # Absent => reqHeader[k] = origHeader[k]
    /\ (rpc = "done" /\ rErr = "nil" /\ origHeader["Range"] = "bytes=0-0") => SupportsRange

\* a probe with credentials, redirected twice, ends with 206
C10_Witness ==
    /\ rpc = "done"
    /\ rErr = "nil"
    /\ via = 2
    /\ origHeader = [k \in HeaderKeys |-> Given(k)]
    /\ SupportsRange

(***************************************************************************)
(* C11. Redirects are capped at 10: each of the first 10 redirects of a     *)
(* chain is followed (CheckRedirect refuses none of them), the 11th is      *)
(* refused with "stopped after 10 redirects", and no request is sent after  *)
(* more than 10 redirects.  (via counts the redirects of the chain so far,  *)
(* which is len(via) at the call of CheckRedirect.)                         *)
(***************************************************************************)
C11_RedirectCap ==
    /\ rErr # "nil" => (rErr = "stopped after 10 redirects" /\ via = 11)
    /\ rpc = "sent" => via <= 10

(***************************************************************************)
(* C12. State.Downloaded never goes down during a download: every store    *)
(* into it (the flushes of the progress reader, its final Flush, the store *)
(* after Sync and Close) stores a value at least as large as the one it    *)
(* replaces, and so as every value stored before.                          *)
(***************************************************************************)
C12_DownloadedMonotonic == [][downloaded' >= downloaded]_vars

\* the final Flush publishes more than an earlier flush did
C12_Witness ==
    /\ dpc = "FinalFlushVerified"
    /\ verified > 0
    /\ downloaded > verified

(***************************************************************************)
(* C13. In every state of a download, also between the store into          *)
(* State.Downloaded and the store into State.VerifiedProgress that follows *)
(* it, 0 <= VerifiedProgress <= Downloaded.                                *)
(***************************************************************************)
C13_VerifiedWithinDownloaded == 0 <= verified /\ verified <= downloaded

\* a reader between the two stores of the first flush
C13_Witness ==
    /\ dpc = "ReadFlushVerified"
    /\ verified = 0
    /\ downloaded > 0

(***************************************************************************)
(* C14. In a download with a known size (fileSize > 0) that publishes its  *)
(* progress, State.Downloaded never exceeds fileSize, whatever the length  *)
(* of the body the server sends.                                           *)
(***************************************************************************)
C14_DownloadedWithinTotal == (fileSize > 0 /\ ~stateNil) => downloaded <= fileSize

(***************************************************************************)
(* C15. State.Downloaded and State.VerifiedProgress never exceed the       *)
(* number of bytes whose write to the working file has succeeded.          *)
(***************************************************************************)
C15_PublishedBytesAreWritten == downloaded <= written /\ verified <= written

(***************************************************************************)
(* C16. When the copy of the body ends in an error and the context has     *)
(* been cancelled, Download returns the context's error, not "copy error", *)
(* and goes straight to its deferred cleanup.  When it has returned the    *)
(* context's error, success is not set, none of the finishing calls        *)
(* (Truncate, Sync, Close, Rename, the fallback copy) was made, so the     *)
(* stores of lines 211-212 were not reached, the working file is gone and  *)
(* Download has put no file at destPath.                                   *)
(***************************************************************************)
FinishingOps == {"Truncate", "Sync", "Close", "Rename", "CopyFile", "Remove"}

C16_CancelStep ==
    (dpc = "CheckErr" /\ copyErr /\ cancelled) =>
        (dpc' = "Deferred" /\ retErr' = "context canceled")

C16_Returned ==
    (dpc = "Returned" /\ retErr = "context canceled") =>
        /\ ~success
        /\ ~workingExists
        /\ ~fdOpen
        /\ destKind \in {"none", "old"}
        /\ \A i \in 1 .. Len(ops) : ops[i] \notin FinishingOps

C17_SharedPerKey ==
    \A i, j \in 1 .. Len(returned) :
        (returned[i].key = returned[j].key) <=>
            (returned[i].transport = returned[j].transport)

\* two callers raced on the empty cache: each allocated a transport, and
\* both returned the one that was stored first; a third call, with another
\* key, got another transport
C17_Witness ==
    /\ Len(returned) = 3
    /\ made = 3
    /\ returned[1].caller # returned[2].caller
    /\ returned[1].key = returned[2].key
    /\ returned[1].transport = returned[2].transport
    /\ returned[3].key # returned[1].key
    /\ returned[3].transport # returned[1].transport

(***************************************************************************)
(* What a call on the store was, and the rows the store keeps for a URL.   *)
(***************************************************************************)
IsCall(call, op, url) == call.op = op /\ call.url = url

RowsOf(table, url) == {r \in table : r.url_hash = URLHash(url)}

\* the state a LoadState returned is the state saved, with the fingerprint set
SameState(loaded, saved, url) ==
    /\ loaded.URL = saved.URL
    /\ loaded.TotalSize = saved.TotalSize
    /\ loaded.Downloaded = saved.Downloaded
    /\ loaded.Filename = saved.Filename
    /\ loaded.Tasks = saved.Tasks
    /\ loaded.URLHash = URLHash(url)

(***************************************************************************)
(* C18. LoadState(url) right after SaveState(url, S) succeeds and returns  *)
(* a state with the URL, TotalSize, Downloaded, Filename and task list of  *)
(* S, and with URLHash the fingerprint of url, whatever the store held     *)
(* before.                                                                 *)
(***************************************************************************)
C18_SaveLoadRoundTrip ==
    \A url \in URLs :
        (IsCall(lastCall, "LoadState", url) /\ IsCall(prevCall, "SaveState", url)) =>
            /\ ret.err = "nil"
            /\ Len(ret.state) = 1
            /\ SameState(ret.state[1], prevCall.state[1], url)

\* a state with two tasks comes back, the tasks in their order
C18_Witness ==
    /\ lastCall.op = "LoadState"
    /\ prevCall.op = "SaveState"
    /\ prevCall.url = lastCall.url
    /\ ret.err = "nil"
    /\ ret.state[1].Tasks = <<[Offset |-> 0, Length |-> 1], [Offset |-> 1, Length |-> 1]>>
    /\ ret.state[1].URLHash = URLHash("https://test.example.com/overwrite-test.zip")

(***************************************************************************)
(* C19. After SaveState(url, S1) and then SaveState(url, S2), LoadState    *)
(* (url) returns the Downloaded and the task list of S2; the tasks rows of *)
(* the URL are exactly those of S2, and no task of S1 that is not a task   *)
(* of S2 is left.                                                          *)
(***************************************************************************)
TaskSet(ts) == {ts[i] : i \in 1 .. Len(ts)}

C19_SaveOverwrites ==
    \A url \in URLs :
        (/\ IsCall(lastCall, "LoadState", url)
         /\ IsCall(prevCall, "SaveState", url)
         /\ IsCall(firstCall, "SaveState", url)) =>
            /\ ret.err = "nil"
            /\ Len(ret.state) = 1
            /\ ret.state[1].Downloaded = prevCall.state[1].Downloaded
            /\ ret.state[1].Tasks = prevCall.state[1].Tasks
            /\ RowsOf(tasksTable, url) = TaskRows(URLHash(url), prevCall.state[1].Tasks)
            /\ TaskSet(ret.state[1].Tasks)
                  \cap (TaskSet(firstCall.state[1].Tasks) \ TaskSet(prevCall.state[1].Tasks)) = {}

\* TestStateOverwrite in small: saved with nothing downloaded and one task at
\* offset 0, saved again with half downloaded and one task at that offset
C19_Witness ==
    /\ lastCall.op = "LoadState"
    /\ prevCall.op = "SaveState"
    /\ firstCall.op = "SaveState"
    /\ prevCall.url = lastCall.url
    /\ firstCall.url = lastCall.url
    /\ firstCall.state[1].Downloaded = 0
    /\ firstCall.state[1].Tasks = <<[Offset |-> 0, Length |-> MaxSize]>>
    /\ ret.state[1].Downloaded = 1
    /\ ret.state[1].Tasks = <<[Offset |-> 1, Length |-> MaxSize - 1]>>

(***************************************************************************)
(* C20. DeleteState(url) leaves no row of downloads and no row of tasks    *)
(* for the URL, and leaves the rows of every other URL as they were; so a  *)
(* LoadState(url) right after it fails, and a LoadState of another URL,    *)
(* saved just before the delete, returns what was saved.                   *)
(***************************************************************************)
C20_DeleteStep ==
    \A url \in URLs :
        IsCall(lastCall', "DeleteState", url) =>
            \A other \in URLs \ {url} :
                /\ RowsOf(downloadsTable', other) = RowsOf(downloadsTable, other)
                /\ RowsOf(tasksTable', other) = RowsOf(tasksTable, other)

C20_Deleted ==
    \A url \in URLs :
        /\ IsCall(lastCall, "DeleteState", url) =>
              RowsOf(downloadsTable, url) = {} /\ RowsOf(tasksTable, url) = {}
        /\ (IsCall(lastCall, "LoadState", url) /\ IsCall(prevCall, "DeleteState", url)) =>
              ret.err # "nil" /\ ret.state = <<>>
        /\ \A other \in URLs \ {url} :
              (/\ IsCall(lastCall, "LoadState", other)
               /\ IsCall(prevCall, "DeleteState", url)
               /\ IsCall(firstCall, "SaveState", other)) =>
                  /\ ret.err = "nil"
                  /\ SameState(ret.state[1], firstCall.state[1], other)

C20_DeleteCascades == [][C20_DeleteStep]_vars /\ []C20_Deleted

\* a state with a task is saved and deleted, and the load fails; the record
\* of the other URL is still there
C20_Witness ==
    /\ firstCall.op = "SaveState"
    /\ firstCall.state[1].Tasks # <<>>
    /\ IsCall(prevCall, "DeleteState", firstCall.url)
    /\ IsCall(lastCall, "LoadState", firstCall.url)
    /\ ret.err = "not found"
    /\ downloadsTable # {}

ExpectedPath ==
    Join(Path(TRUE, request.dir.elems \o request.path.elems), request.filename)

C22_ResumeKeepsDestination ==
    (ppc # "idle" /\ ~request.path.abs) =>
        /\ Destination.abs /\ Destination = ExpectedPath
        /\ ppc \in {"paused", "loaded", "resumed"} =>
              dest_path.abs /\ dest_path = ExpectedPath
        /\ ppc \in {"loaded", "resumed"} =>
              canonicalForCompare(entry.DestPath, cwd) = ExpectedPath
        /\ ppc = "resumed" => outputPath = Dir(ExpectedPath)

C22_Witness ==
    /\ ppc = "resumed"
    /\ request.path = Path(FALSE, <<>>)
    /\ request.dir = Path(TRUE, <<"tmp", "DirA">>)
    /\ DefaultDownloadDir = Path(TRUE, <<"tmp", "DirB">>)
    /\ cwd = Path(TRUE, <<"tmp", "DirB">>)
    /\ entry.DestPath = Path(TRUE, <<"tmp", "DirA", "file.zip">>)

AsReceived(m) ==
    IF m.kind = "DownloadStartedMsg" THEN [m EXCEPT !.State = "nil"]
    ELSE IF m.kind = "DownloadErrorMsg" /\ ~m.Err.isnil /\ m.Err.text = ""
         THEN [m EXCEPT !.Err = NilError]
    ELSE m

Unsupported(m) ==
    \E f \in JSONFields(m.kind) : FieldTypes(m.kind)[f] = "float" /\ m[f] = "NaN"

C24_BatchGivesOneFramePerEntry ==
    (epc # "idle" /\ msg.kind = "BatchProgressMsg") =>
        /\ encErr = "nil"
        /\ Len(frames) = Len(msg.entries)

\* C24: a BatchProgressMsg whose n entries json.Marshal supports is flattened
\* into n frames named "progress", frame i carrying entry i; an empty batch
\* gives no frame and no error; a batch with an entry that json.Marshal
\* refuses gives no frame and the error.
C24_BatchFlattened ==
    (epc # "idle" /\ msg.kind = "BatchProgressMsg") =>
        IF \E i \in 1..Len(msg.entries) : Unsupported(msg.entries[i])
        THEN encErr # "nil" /\ frames = <<>>
        ELSE /\ encErr = "nil"
             /\ Len(frames) = Len(msg.entries)
             /\ \A i \in 1..Len(frames) :
                   /\ frames[i].Event = "progress"
                   /\ frames[i].Data = Marshal(msg.entries[i]).data
                   /\ epc = "decoded" => decoded[i].msg = msg.entries[i]

C24_Witness ==
    /\ epc = "decoded"
    /\ msg.kind = "BatchProgressMsg"
    /\ Len(msg.entries) = 2
    /\ msg.entries[1].DownloadID = "a" /\ msg.entries[2].DownloadID = "b"
    /\ Len(frames) = 2
    /\ decoded[1].msg.DownloadID = "a" /\ decoded[2].msg.DownloadID = "b"

\* the frames of a sequence of messages, message after message; a message
\* that does not encode, or encodes to nothing, gives none
RECURSIVE FramesOf(_)
FramesOf(ms) ==
    IF ms = <<>> THEN <<>>
    ELSE LET enc == EncodeSSEMessages(ms[Len(ms)]) IN
         FramesOf(SubSeq(ms, 1, Len(ms) - 1)) \o (IF enc.err = "nil" THEN enc.frames ELSE <<>>)

C25_WrittenInOrder == responseBody = FramesOf(received)

C25_Step ==
    /\ (hpc = "streaming" /\ hpc' = "returned") =>
          (ctxDone \/ (streamClosed /\ stream = <<>>))
    /\ (received' # received) =>
          /\ hpc' = "streaming"
          /\ received' = Append(received, Head(stream))
          /\ stream' = Tail(stream)

\* C25: the frames responseBody are those of the messages received from the stream,
\* in the order received and a batch's entries in batch order; a message that
\* fails to encode or has an unknown type adds no frame and the handler goes on
\* with the next; and the streaming handler returns only when the client
\* context is done or the stream is closed and empty.
C25_StreamedInOrder == [](C25_WrittenInOrder) /\ [][C25_Step]_vars

C25_Witness ==
    /\ Len(received) = 3
    /\ received[1].kind = "ProgressMsg"
    /\ received[2].kind = "BatchProgressMsg" /\ Len(received[2].entries) = 2
    /\ received[3].kind = "DownloadPausedMsg"
    /\ Len(responseBody) = 3
    /\ responseBody[1].Data.DownloadID.v = "a"
    /\ responseBody[2].Data.DownloadID.v = "b"
    /\ responseBody[3].Event = "paused"
    /\ hpc = "returned"

\* the methods the claim allows on each route, and the routes that take an id
ClaimedMethods(route) ==
    CASE route \in {"/pause", "/resume"} -> {"POST"}
      [] route = "/delete" -> {"DELETE", "POST"}
      [] route \in {"/list", "/history"} -> {"GET"}
      [] route = "/update-url" -> {"PUT"}

TakesID(route) == route \in {"/pause", "/resume", "/delete", "/update-url"}

\* C26: a request whose method is not one the route allows is answered 405, a
\* request with an allowed method to a route that takes an id but with an empty
\* id is answered 400, so is a request to /update-url with an empty url, and in
\* none of these cases is the service called; the service is called only with
\* an allowed method, and then with the operation of the route.
C26_MethodGuard ==
    httpRequest # NoRequest =>
        LET r == httpRequest
            allowed == r.method \in ClaimedMethods(r.route)
        IN  /\ ~allowed => httpStatus = 405 /\ serviceCall = NoServiceCall
            /\ (allowed /\ TakesID(r.route) /\ r.id = "") =>
                  httpStatus = 400 /\ serviceCall = NoServiceCall
            /\ (allowed /\ r.route = "/update-url" /\ r.id # "" /\ r.body.url = "") =>
                  httpStatus = 400 /\ serviceCall = NoServiceCall
            /\ serviceCall # NoServiceCall =>
                  /\ allowed
                  /\ httpStatus \in {200, 500}
                  /\ TakesID(r.route) => serviceCall.id = r.id /\ r.id # ""
            /\ (allowed /\ ~TakesID(r.route)) => serviceCall # NoServiceCall

C26_Witness ==
    /\ httpRequest.route = "/delete"
    /\ httpRequest.method = "POST"
    /\ httpRequest.id = "id-1"
    /\ serviceCall = [op |-> "Delete", id |-> "id-1", url |-> ""]
    /\ httpStatus = 200
    /\ downloadStatus = "removed"

\* a step that serves a call of update_url
UpdateStep ==
    /\ serviceCall'.op = "UpdateURL"
    /\ httpRequest'.route = "/update-url"
    /\ downloadStatus' = downloadStatus

\* C27: the stored URL changes only by an update_url made while the download
\* is paused or in error, and an update_url made in any other status is
\* rejected and leaves the URL as it was.
C27_Step ==
    /\ downloadURL' # downloadURL =>
          /\ UpdateStep
          /\ downloadStatus \in {"paused", "error"}
          /\ httpStatus' = 200
          /\ downloadURL' = serviceCall'.url
    /\ (UpdateStep /\ downloadStatus \notin {"paused", "error"}) =>
          /\ httpStatus' = 500
          /\ downloadURL' = downloadURL

C27_UpdateOnlyWhenPausedOrError == [][C27_Step]_vars

C27_Witness ==
    /\ downloadStatus = "paused"
    /\ httpRequest.route = "/update-url"
    /\ httpStatus = 200
    /\ downloadURL = "http://mirror.example.com/file.zip"

\* the chunks of p lie end to end from 0 to total
Covers(p, total) ==
    /\ Len(p) >= 1
    /\ p[1].offset = 0
    /\ \A i \in 1..Len(p) : p[i].length >= 0
    /\ \A i \in 1..(Len(p) - 1) :
          /\ p[i].length > 0
          /\ p[i + 1].offset = p[i].offset + p[i].length
    /\ p[Len(p)].offset + p[Len(p)].length = total

RECURSIVE SumOfLengths(_)
SumOfLengths(ts) == IF ts = <<>> THEN 0 ELSE Head(ts).length + SumOfLengths(Tail(ts))

RECURSIVE SumOver(_, _)
SumOver(f, S) ==
    IF S = {} THEN 0 ELSE LET x == CHOOSE y \in S : TRUE IN f[x] + SumOver(f, S \ {x})

\* C29: once the download is paused, the stored tasks are ranges of positive
\* length, disjoint from one another, that cover exactly the positions not
\* verified at the pause; after the resume no position verified at the pause
\* is fetched and no position is fetched twice; and when the resumed download
\* completes the bytes fetched since the resume number total_size minus
\* verified_progress at the pause, and downloaded is total_size.
C29_PauseResumeFetchesTheRest ==
    /\ (phase = "paused" \/ wasResumed) =>
          /\ \A i \in 1..Len(storedTasks) : storedTasks[i].length > 0
          /\ \A i, j \in 1..Len(storedTasks) :
                i # j => RangeOf(storedTasks[i].offset, storedTasks[i].length)
                           \cap RangeOf(storedTasks[j].offset, storedTasks[j].length) = {}
          /\ SumOfLengths(storedTasks) = TotalSize - verified_at_pause
          /\ \A pos \in Positions :
                fetchedAfterResume[pos] <= 1
    /\ phase = "paused" =>
          UNION {RangeOf(storedTasks[i].offset, storedTasks[i].length) : i \in 1..Len(storedTasks)}
             = Positions \ verifiedBytes
    /\ (phase = "completed" /\ wasResumed) =>
          /\ SumOver(fetchedAfterResume, Positions) = TotalSize - verified_at_pause
          /\ bytesDownloaded = TotalSize
          /\ verifiedBytes = Positions

C29_Witness ==
    /\ phase = "completed" /\ wasResumed
    /\ verified_at_pause = 1
    /\ Len(storedTasks) = 2
    /\ storedTasks[2] = Task(1, ChunkLength - 1)
    /\ fetchedAfterResume[0] = 0
    /\ fetchedAfterResume[1] = 1

\* a step in which the monitor aborts worker w
Aborted(w) ==
    /\ reading[w] # "idle" /\ reading'[w] = "idle"
    /\ held[w].range \notin finishedRanges'

C30_Step ==
    \A w \in Monitored :
        Aborted(w) =>
            /\ waitTicks[w] >= 5
            /\ reading[w] = "reading"
            /\ ~connAlive[w]
            /\ retryQueue' = Append(retryQueue, RetryTask(held[w].range, held[w].attempt + 1))

Requeued(r) == \E i \in 1..Len(retryQueue) : retryQueue[i].range = r /\ retryQueue[i].attempt > 1

Occurrences(s, t) == Cardinality({i \in 1 .. Len(s) : s[i] = t})

C32_ExactlyOnce ==
    /\ \A t \in 1 .. nextTask : Occurrences(RemovedTasks, t) + Occurrences(Pending, t) = 1
    /\ Len(RemovedTasks) + Len(Pending) = nextTask
    /\ \A p \in Procs :
          /\ (pc[p] \in {"PopSize", "PopUnlock"} /\ popRet[p].ok) =>
                Occurrences(removed, [task |-> popRet[p].task, by |-> "Pop"]) = 1
          /\ \A i \in 1 .. Len(drainRet[p]) :
                Occurrences(removed, [task |-> drainRet[p][i], by |-> "DrainRemaining"]) = 1

\* after Close, one task has left through Pop, one through DrainRemaining and
\* one is pending
C32_Witness ==
    /\ done
    /\ \E i \in 1 .. Len(removed) : removed[i].by = "Pop"
    /\ \E i \in 1 .. Len(removed) : removed[i].by = "DrainRemaining"
    /\ Pending # <<>>
    /\ \E p \in Procs : pc[p] = "PopUnlock" /\ popRet[p].ok

(***************************************************************************)
(* C31. A failing task is fetched on the same source at most 5 times; a    *)
(* retry re-enters the queue at its end, same chunk and source, with       *)
(* attempt incremented by exactly 1, and only while fewer than 5 attempts  *)
(* were made; once the 5 attempts are used up the task moves to the next   *)
(* mirror or the failure is surfaced, so that no task is retried without   *)
(* end; nothing is fetched once a failure was surfaced.                    *)
(***************************************************************************)
C31_Bounded ==
    /\ \A c \in 1 .. NumTasks : \A s \in Sources : attemptsMade[c][s] <= MaxAttempts
    /\ \A i \in 1 .. Len(workQueue) : workQueue[i].attempt \in 1 .. MaxAttempts
    /\ current # NoAttempt => current.attempt = attemptsMade[current.chunk][current.source]

C31_Step ==
    /\ Len(workQueue') > Len(workQueue) =>
          LET r == workQueue'[Len(workQueue')] IN
             /\ workQueue' = Append(workQueue, r)
             /\ lastFailure' = "transient"
             /\ r.chunk = current.chunk
             /\ \/ /\ r.source = current.source
                   /\ r.attempt = current.attempt + 1
                   /\ current.attempt < MaxAttempts
                \/ /\ r.source = current.source + 1
                   /\ current.attempt = MaxAttempts
    /\ (lastFailure' = "transient" /\ current # NoAttempt /\ current' = NoAttempt
          /\ current.attempt = MaxAttempts) =>
          \/ surfaced' /\ current.source = NumMirrors /\ workQueue' = workQueue
          \/ ~surfaced' /\ workQueue'[Len(workQueue')] = OnNextMirror(current)
    /\ surfaced => UNCHANGED <<workQueue, attemptsMade>>

C31_RetriesBounded == []C31_Bounded /\ [][C31_Step]_vars

\* a chunk was fetched 5 times on the primary and 5 times on the last mirror,
\* and its failure was surfaced
C31_Witness ==
    /\ surfaced
    /\ lastFailure = "transient"
    /\ \E c \in 1 .. NumTasks : \A s \in Sources : attemptsMade[c][s] = MaxAttempts

(***************************************************************************)
(* C33, as claimed. Whenever a task is pending while a worker waits in     *)
(* Pop (parked in cond.Wait, or signalled and not yet back under the       *)
(* lock), some worker eventually returns from Pop with a task.             *)
(***************************************************************************)
\* the workers signalled out of cond.Wait that have not re-acquired q.mu
Signalled == {p \in Procs : pc[p] = "PopRelock"}

WorkerWaits == notify # {} \/ Signalled # {}

\* a Pop has just taken a task (part_004:64-65) and is about to return it
PopReturnsTask == \E p \in Procs : pc[p] = "PopSize"

C33_PushedTaskIsPopped == (WorkerWaits /\ Pending # <<>>) ~> PopReturnsTask

(***************************************************************************)
(* C33. No lost wake-up: whenever workers are parked in cond.Wait and no   *)
(* goroutine holds q.mu, every pending task has a signalled worker on its  *)
(* way to take it; and, under fair scheduling of the goroutines inside an  *)
(* operation, whenever a task is pending while a worker waits in Pop, a    *)
(* task eventually leaves the queue: a worker returns from Pop with it,    *)
(* or DrainRemaining takes the pending tasks first. This holds also when a *)
(* push arrives before a signalled waiter has re-acquired the lock and     *)
(* decremented the waiting counter.                                        *)
(***************************************************************************)
C33_NoParkedWithWork ==
    (notify # {} /\ mu = NoProc) => Len(Pending) <= Cardinality(Signalled)

\* DrainRemaining has just taken the pending tasks (part_004:100-103)
DrainTakesTasks == \E p \in Procs : pc[p] = "DrainRemainingStore"

C33_NoLostWakeUp ==
    /\ []C33_NoParkedWithWork
    /\ (WorkerWaits /\ Pending # <<>>) ~> (PopReturnsTask \/ DrainTakesTasks)

\* two pushes, the second arriving before the waiter the first one signalled
\* has re-acquired the lock: the waiting counter still counts both waiters and
\* the second push signals the second one
C33_Witness ==
    \E p, q, r \in Procs :
        /\ p # q
        /\ pc[p] = "PopRelock" /\ pc[q] = "PopRelock"
        /\ pc[r] = "PushUnlock" /\ sig[r] = 1
        /\ waiting = 2
        /\ Len(Pending) = 2

(***************************************************************************)
(* C34. Close does not discard work: Close leaves the pending tasks as     *)
(* they are and wakes every parked worker; once done is set, a Pop that    *)
(* finds a task pending returns the task at the front of the queue,        *)
(* whether it was pending at Close or pushed after it, so that (as long as *)
(* nothing is drained) the tasks leave in the order they were appended; a  *)
(* Pop returns closed only when no task is pending; and after Close no Pop *)
(* parks: done is never unset, and a worker is parked under done only      *)
(* while Close stands between setting done and its Broadcast.              *)
(***************************************************************************)
C34_Step(p) ==
    /\ (pc[p] = "idle" /\ pc'[p] = "CloseBroadcast") =>
          (done' /\ Pending' = Pending /\ removed' = removed)
    /\ (pc[p] = "CloseBroadcast" /\ pc'[p] # "CloseBroadcast") =>
          (notify' = {} /\ Pending' = Pending /\ removed' = removed)
    /\ (done /\ pc[p] = "PopTake" /\ pc'[p] # "PopTake") =>
          IF Pending = <<>>
             THEN popRet'[p] = ClosedResult /\ removed' = removed
             ELSE /\ popRet'[p] = TaskResult(Head(Pending))
                  /\ Pending' = Tail(Pending)
                  /\ removed' = Append(removed, [task |-> Head(Pending), by |-> "Pop"])
    /\ (pc[p] = "PopTake" /\ pc'[p] = "PopUnlock") => (done /\ Pending = <<>>)
    /\ (done /\ pc'[p] = "PopParked") => pc[p] = "PopParked"
    /\ done => done'

C34_AfterClose ==
    /\ (done /\ notify # {}) => \E p \in Procs : pc[p] = "CloseBroadcast"
    /\ (done /\ NoDrain) => RemovedTasks \o Pending = appended

C34_CloseKeepsWork == []C34_AfterClose /\ [][\A p \in Procs : C34_Step(p)]_vars

\* after Close: a worker that had parked returns from Pop with the last of
\* the tasks, all of them popped in the order of their appends, while another
\* worker, woken, waits for the lock
C34_Witness ==
    /\ done
    /\ NoDrain
    /\ RemovedTasks = appended
    /\ Len(appended) = MaxTasks
    /\ \E p, q \in Procs :
          /\ pc[p] = "PopUnlock" /\ popRet[p] = TaskResult(MaxTasks) /\ slept[p]
          /\ pc[q] = "PopRelock"

(***************************************************************************)
(* C35. Queue compaction preserves content: when a Pop has advanced q.head *)
(* past half of the backing slice, the consumed prefix is dropped and      *)
(* q.head reset to 0, and otherwise slice and head stay as they are; in    *)
(* both cases the pending tasks q.tasks[q.head:] are the same before and   *)
(* after, as they would be without compaction. Outside the two statements  *)
(* of Pop between q.head++ and the compaction, q.head <= len(q.tasks)/2,   *)
(* and q.head never exceeds len(q.tasks).                                  *)
(***************************************************************************)
C35_CompactStep(p) ==
    (pc[p] = "PopSize" /\ pc'[p] # "PopSize") =>
        /\ Pending' = Pending
        /\ IF head > Len(tasks) \div 2
              THEN head' = 0 /\ tasks' = Pending
              ELSE head' = head /\ tasks' = tasks

C35_HeadBounded ==
    /\ head \in 0 .. Len(tasks)
    /\ (\A p \in Procs : pc[p] # "PopSize") => head <= Len(tasks) \div 2

C35_CompactionPreservesPending ==
    []C35_HeadBounded /\ [][\A p \in Procs : C35_CompactStep(p)]_vars

\* the Pop of the last task but one has dropped the consumed prefix, longer
\* than half of the slice, and left the last task pending
C35_Witness ==
    /\ head = 0
    /\ tasks = <<MaxTasks>>
    /\ \E p \in Procs : pc[p] = "PopUnlock" /\ popRet[p] = TaskResult(MaxTasks - 1)

(***************************************************************************)
(* C36. A request that cannot be built or sent, or a response whose status *)
(* is not 200, makes Download return an error before any file is touched:  *)
(* from the call to the return no step changes the file system (no working *)
(* file is created, an existing working file and the file at destPath stay *)
(* as they are) and none changes ProgressState; no call on a file is made  *)
(* and outFile is never set.                                               *)
(***************************************************************************)
\* Download returns at 130, 140 or 149
EarlyReturn == retErr \in {"request error", "unexpected status code"}

C36_Step ==
    (dpc \in {"NewRequest", "Do"} \/ EarlyReturn) => UNCHANGED <<dfiles, dprogress>>

C36_Untouched ==
    EarlyReturn =>
        /\ ops = <<>>
        /\ ~created /\ ~fdOpen /\ ~deferReg
        /\ destKind \in {"none", "old"}
        /\ downloaded = 0 /\ verified = 0

C36_EarlyErrorTouchesNothing == []C36_Untouched /\ [][C36_Step]_vars

\* a non-200 answer, with a ProgressState, a stale working file and an old
\* file at destPath: Download has returned and both files are still there
C36_Witness ==
    /\ dpc = "Returned"
    /\ retErr = "unexpected status code"
    /\ ~stateNil
    /\ workingExists /\ workingSize = 1
    /\ destKind = "old"

(***************************************************************************)
(* C37. runHeadless cannot deadlock on its channels: the send on errCh     *)
(* finds the buffer empty and so never blocks, and it happens before       *)
(* eventCh is closed, so that the receive from errCh after the loop never  *)
(* blocks either; whenever Download returns, runHeadless eventually        *)
(* returns (both goroutines being scheduled). It returns the Err of the    *)
(* first DownloadErrorMsg the loop receives, and Download's own return     *)
(* value when the loop received none.                                      *)
(***************************************************************************)
ErrorsSeen == {i \in 1 .. Len(seen) : seen[i].kind = "error"}

C37_Channels ==
    /\ gpc = "sendErr" => errCh = <<>>
    /\ eventChClosed => gpc = "exited"
    /\ lpc = "recvErr" => errCh = <<downloadErr>>
    /\ Len(errCh) <= 1 /\ Len(eventCh) <= progressChannelBuffer
    /\ lpc = "returned" =>
          IF ErrorsSeen # {}
             THEN /\ ErrorsSeen = {Len(seen)}
                  /\ headlessRet = seen[Len(seen)].err
             ELSE /\ headlessRet = downloadErr
                  /\ gpc = "exited" /\ eventCh = <<>> /\ Len(seen) = emitted

C37_NoDeadlock ==
    /\ []C37_Channels
    /\ (gpc # "downloading") ~> (lpc = "returned")

\* Download filled the buffer, sent no DownloadErrorMsg and returned an error:
\* runHeadless has returned that error
C37_Witness ==
    /\ lpc = "returned"
    /\ emitted = MaxEvents
    /\ ErrorsSeen = {}
    /\ downloadErr = "failed"
    /\ headlessRet = "failed"

(***************************************************************************)
(* C38. Duplicate URL guard: a start request, from the server or from the  *)
(* input form, whose URL is the URL of a download in the list adds no      *)
(* download and submits nothing to the pool; it stores the URL, the path   *)
(* ("." for an empty one) and the filename as pending and enters           *)
(* DuplicateWarningState. From there 'c' appends exactly one download,     *)
(* with the pending URL and a new ID, and submits one config with the      *)
(* pending URL, path and filename; 'x' or esc adds and submits nothing;    *)
(* both return to the dashboard.                                           *)
(***************************************************************************)
InList(url) == \E i \in 1 .. Len(downloads) : downloads[i].URL = url

Warned(url, path, filename) ==
    /\ downloads' = downloads
    /\ NextDownloadID' = NextDownloadID
    /\ poolAdds' = poolAdds /\ lastCfg' = lastCfg
    /\ pendingURL' = url /\ pendingPath' = path /\ pendingFilename' = filename
    /\ uiState' = "DuplicateWarning"

C38_Step ==
    /\ \A url \in RequestURLs, path \in RequestPaths, filename \in RequestFilenames :
          /\ (StartDownloadMsg(url, path, filename) /\ InList(url)) =>
                Warned(url, IF path = "" THEN "." ELSE path, filename)
          /\ (InputEnter(url, path, filename) /\ InList(url)) =>
                Warned(url, IF path = "" THEN "." ELSE path, filename)
    /\ DuplicateContinue =>
          /\ Len(downloads') = Len(downloads) + 1
          /\ SubSeq(downloads', 1, Len(downloads)) = downloads
          /\ downloads'[Len(downloads')].URL = pendingURL
          /\ downloads'[Len(downloads')].ID \notin ListedIDs
          /\ poolAdds' = poolAdds + 1
          /\ lastCfg' = DownloadConfig(pendingURL, pendingPath,
                                       downloads'[Len(downloads')].ID, pendingFilename)
          /\ uiState' = "Dashboard"
    /\ DuplicateCancel =>
          /\ downloads' = downloads
          /\ poolAdds' = poolAdds /\ lastCfg' = lastCfg
          /\ uiState' = "Dashboard"

C38_DuplicateGuard ==
    /\ [](uiState = "DuplicateWarning" => pendingURL \in RequestURLs /\ pendingPath # "")
    /\ [][C38_Step]_vars

\* 'c' was pressed on the warning for a URL already in the list: the list holds
\* two downloads of that URL, neither started yet, and the second was submitted
\* with the pending values
C38_Witness ==
    /\ uiState = "Dashboard"
    /\ Len(downloads) = 2
    /\ downloads[1] = NewDownloadModel(1, pendingURL)
    /\ downloads[2] = NewDownloadModel(2, pendingURL)
    /\ poolAdds = 2
    /\ pendingFilename = "name"
    /\ lastCfg = DownloadConfig(pendingURL, pendingPath, 2, pendingFilename)

(***************************************************************************)
(* C39. Download IDs are unique: after any start requests, duplicate       *)
(* confirmations and deletions, the downloads of the list have pairwise    *)
(* distinct IDs, NextDownloadID is greater than every ID ever assigned and *)
(* never decreases, and a new download gets an ID that was never assigned  *)
(* before, so that an ID freed by a deletion is not reused.                *)
(***************************************************************************)
C39_Distinct ==
    /\ \A i, j \in 1 .. Len(downloads) : i # j => downloads[i].ID # downloads[j].ID
    /\ \A id \in assignedIDs : id < NextDownloadID
    /\ ListedIDs \subseteq assignedIDs

C39_Step ==
    /\ NextDownloadID' >= NextDownloadID
    /\ Len(downloads') > Len(downloads) =>
          /\ downloads'[Len(downloads')].ID \notin assignedIDs
          /\ downloads'[Len(downloads')].ID \in assignedIDs'
          /\ NextDownloadID' > downloads'[Len(downloads')].ID

C39_UniqueIDs == []C39_Distinct /\ [][C39_Step]_vars

\* a download was deleted and a duplicate confirmed after it: the ID of the
\* deleted download is free and the new download has another one
C39_Witness ==
    /\ assignedIDs \ ListedIDs # {}
    /\ Len(downloads) = 2
    /\ downloads[1].URL = downloads[2].URL
    /\ downloads[2] = NewDownloadModel(MaxDownloads, pendingURL)
    /\ lastCfg = DownloadConfig(pendingURL, pendingPath, MaxDownloads, pendingFilename)

(***************************************************************************)
(* C40: the cursor of the history view stays in range. After any keys in   *)
(* HistoryState, 0 <= historyCursor; historyCursor < len(historyEntries)   *)
(* when the history is not empty and historyCursor = 0 when it is; and a   *)
(* delete removes the entry under the cursor and no other.                 *)
(***************************************************************************)
C40_InRange ==
    /\ historyCursor >= 0
    /\ historyEntries # <<>> => historyCursor < Len(historyEntries)
    /\ historyEntries = <<>> => historyCursor = 0

\* the store loses the entry under the cursor and nothing else
C40_RemovesSelected ==
    LET selected == historyEntries[historyCursor + 1] IN
        /\ HasHash(masterList, selected)
        /\ ~HasHash(masterList', selected)
        /\ \A hash \in HistoryHashes \ {selected} :
               HasHash(masterList', hash) = HasHash(masterList, hash)
        /\ Len(masterList') = Len(masterList) - 1
        /\ historyEntries' = masterList'

\* as stated: every delete on a history that is not empty removes the entry
C40_EveryDeleteStep == HistoryDeletes /\ historyEntries # <<>> => C40_RemovesSelected

C40_EveryDeleteRemoves == []C40_InRange /\ [][C40_EveryDeleteStep]_vars

\* a delete whose removal succeeds removes the entry under the cursor and no
\* other; one whose removal fails leaves the store and the cursor as they were
C40_DeleteStep ==
    /\ HistoryDelete(TRUE) /\ historyEntries # <<>> => C40_RemovesSelected
    /\ HistoryDelete(FALSE) =>
          /\ masterList' = masterList
          /\ historyEntries' = masterList
          /\ historyCursor' = historyCursor

C40_HistoryCursorInRange == []C40_InRange /\ [][C40_DeleteStep]_vars

\* the last entry of a history of several was deleted and the cursor moved up
C40_Witness ==
    /\ viewState = "History"
    /\ removedLast # {}
    /\ historyEntries # <<>>
    /\ historyCursor = Len(historyEntries) - 1
    /\ historyCursor > 0
    /\ \A hash \in removedLast : ~HasHash(historyEntries, hash)

=============================================================================
